---- MODULE Spec2Model ----
(***************************************************************************)
(* The JSON-RPC tool endpoint of amello-mcp (src/api/mcp.js, the           *)
(* dependency-free handler of lines 373-810): body decoding, request       *)
(* normalisation, the tool registry, tools/list and tools/call, the        *)
(* built-in tool handlers with their outbound call, and the responses the  *)
(* handler sends.                                                          *)
(*                                                                         *)
(* JavaScript values are tagged records: [t |-> "undefined"], "null",      *)
(* "bool", "num", "str", "obj" (f: the own properties), "arr" (a: the      *)
(* elements) and "huge" (a parsed value whose re-encoding exceeds the      *)
(* engine's string limit, so that JSON.stringify throws on it).            *)
(***************************************************************************)
EXTENDS Integers, Sequences, FiniteSets, TLC

VARIABLES
  custom,     \* tools a deployment registers after the built-in catalogue
  pc,         \* position of the handler invocation
  req,        \* the HTTP request: method, accept header, stream, raw body
  parsed,     \* what getJsonBody returned: obj and err
  tools,      \* registry.tools of this invocation
  requests,   \* the normalised requests
  calls,      \* per request element: state of its handleRpcSingle promise
  res,        \* the HTTP response: times sent, status, body
  invoked,    \* tool handlers invoked by this invocation, in order
  apiCalls,   \* outbound calls to the booking API, in order
  variant,    \* chat endpoint: the handler deployed, "ts" (chat.ts) or "js" (chat.js)
  cpc,        \* chat endpoint: where its handler stands
  creq,       \* chat endpoint: the HTTP request being handled
  oaTools,    \* the tools advertised to the completion API
  messages,   \* the transcript: system prompt, history, user message, ...
  msg,        \* the assistant message of the completion last received
  toolResults,\* chat.ts: the tool messages of the turn
  next,       \* index, among the turn's tool calls, of the call in flight
  iter,       \* completion requests issued so far
  outbound,   \* requests sent to the Router and the completion API, in order
  cres,       \* chat endpoint: the HTTP response: times sent, status, body
  apiKey,     \* chat endpoint: OPENAI_API_KEY is set in the environment
  draft,      \* concurrent invocations: the handler of src/api/mcp.js that serves,
              \* "sdk" (lines 1-371) or "rpc" (lines 373-810)
  inflight,   \* concurrent invocations: per slot, the state of its invocation
  servers,    \* the registry / server instances built so far
  serverPromise, \* sdk handler: the module's cached instance, 0 when there is none
  registry,   \* a registry on its own: the tools registered in it, in order
  lastRegister \* the last call of register on it: its argument, whether it threw,
              \* and the tools before the call

rpcVars == <<custom, pc, req, parsed, tools, requests, calls, res, invoked, apiCalls>>

chatVars ==
  <<variant, cpc, creq, oaTools, messages, msg, toolResults, next, iter, outbound, cres, apiKey>>

concVars == <<draft, inflight, servers, serverPromise>>

regVars == <<registry, lastRegister>>

vars == <<rpcVars, chatVars, concVars, regVars>>

(* ------------------------------ bounds -------------------------------- *)

\* longest batch (array body) sent to the endpoint
MaxBatch == 2

\* the largest number of invocations in flight at a time
MaxInFlight == 2

\* the largest number of register calls on a registry taken on its own
MaxTools == 3

(* --------------------------- JavaScript values ------------------------ *)

Undefined == [t |-> "undefined"]
JNull == [t |-> "null"]
JBool(b) == [t |-> "bool", b |-> b]
JNum(n) == [t |-> "num", n |-> n]
JStr(s) == [t |-> "str", s |-> s]
JObj(f) == [t |-> "obj", f |-> f]
JArr(a) == [t |-> "arr", a |-> a]
JHuge == [t |-> "huge"]
EmptyObj == JObj(<<>>)

\* an object literal: the pairs whose value is not undefined become properties
ObjOf(pairs) ==
  LET present == {p \in pairs : p[2] # Undefined}
  IN JObj([k \in {p[1] : p \in present} |-> (CHOOSE p \in present : p[1] = k)[2]])

\* x.k (and x?.k): undefined when x has no such own property
Get(x, k) == IF x.t = "obj" /\ k \in DOMAIN x.f THEN x.f[k] ELSE Undefined

Has(x, k) == x.t = "obj" /\ k \in DOMAIN x.f

\* !!x
Truthy(x) ==
  CASE x.t \in {"undefined", "null"} -> FALSE
    [] x.t = "bool" -> x.b
    [] x.t = "num" -> x.n # 0
    [] x.t = "str" -> x.s # ""
    [] OTHER -> TRUE

\* a ?? b
Coalesce(a, b) == IF a.t \in {"undefined", "null"} THEN b ELSE a

\* typeof x === "object"
IsObjectType(x) == x.t \in {"obj", "arr", "null", "huge"}

\* `${x}`
ToStr(x) ==
  CASE x.t = "str" -> x.s
    [] x.t = "num" -> ToString(x.n)
    [] x.t = "bool" -> (IF x.b THEN "true" ELSE "false")
    [] x.t = "arr" -> "<array>"
    [] x.t \in {"obj", "huge"} -> "[object Object]"
    [] OTHER -> x.t

(* ------------------- JSON.stringify, as sendJson uses it -------------- *)

RECURSIVE CanStringify(_)
\* JSON.stringify returns (it throws RangeError on a result too long)
CanStringify(v) ==
  CASE v.t = "huge" -> FALSE
    [] v.t = "obj" -> \A k \in DOMAIN v.f : CanStringify(v.f[k])
    [] v.t = "arr" -> \A i \in DOMAIN v.a : CanStringify(v.a[i])
    [] OTHER -> TRUE

RECURSIVE Stringify(_)
\* the JSON text JSON.stringify writes, as the value a reader decodes from it:
\* undefined properties are left out, undefined array elements become null
Stringify(v) ==
  CASE v.t = "obj" ->
         LET keep == {k \in DOMAIN v.f : v.f[k] # Undefined}
         IN JObj([k \in keep |-> Stringify(v.f[k])])
    [] v.t = "arr" ->
         JArr([i \in DOMAIN v.a |->
                 IF v.a[i] = Undefined THEN JNull ELSE Stringify(v.a[i])])
    [] OTHER -> v

(* ------------------------- JSON-RPC envelopes -------------------------- *)

\* id || null for id ?? null
rpcResultFalsyId(id, result) ==
  JObj([jsonrpc |-> JStr("2.0"), id |-> (IF Truthy(id) THEN id ELSE JNull),
        result |-> result])

rpcResult(id, result) ==
  JObj([jsonrpc |-> JStr("2.0"), id |-> Coalesce(id, JNull), result |-> result])

rpcError(id, code, message, data) ==
  JObj([jsonrpc |-> JStr("2.0"), id |-> Coalesce(id, JNull),
        error |-> JObj([code |-> JNum(code), message |-> JStr(message), data |-> data])])

(* ------------------------------ body ----------------------------------- *)

\* a raw body is [bom, text]; text is "" (k = "empty"), text JSON.parse rejects
\* (k = "garbage") or the JSON text of the value v (k = "json")
stripBOM(raw) == [raw EXCEPT !.bom = FALSE]

\* readStreamUtf8: the bytes the stream delivers; "" when the stream errors
readStreamUtf8(r) ==
  IF r.stream = "error" THEN [bom |-> FALSE, text |-> [k |-> "empty"]] ELSE r.body

\* !raw : the string is empty
RawIsEmpty(raw) == ~raw.bom /\ raw.text.k = "empty"

\* JSON.parse(raw) returns; a byte-order mark left in front is a syntax error
ParseOk(raw) == ~raw.bom /\ raw.text.k = "json"

\* a body reader that takes an unparseable body for {}
getJsonBodyLenient(r) ==
  IF r.method # "POST" THEN [obj |-> Undefined, err |-> Undefined]
  ELSE LET raw == stripBOM(readStreamUtf8(r))
       IN IF RawIsEmpty(raw) THEN [obj |-> Undefined, err |-> JStr("Missing request body")]
          ELSE IF ParseOk(raw) THEN [obj |-> raw.text.v, err |-> Undefined]
          ELSE [obj |-> EmptyObj, err |-> Undefined]

getJsonBody(r) ==
  IF r.method # "POST" THEN [obj |-> Undefined, err |-> Undefined]
  ELSE LET raw == stripBOM(readStreamUtf8(r))
       IN IF RawIsEmpty(raw) THEN [obj |-> Undefined, err |-> JStr("Missing request body")]
          ELSE IF ParseOk(raw) THEN [obj |-> raw.text.v, err |-> Undefined]
          ELSE [obj |-> Undefined, err |-> JStr("Invalid JSON")]

(* ------------------------------ registry ------------------------------- *)

Schema == JObj([type |-> JStr("object")])

\* a built-in handler: callApi(verb, route, {headers, [part]: args[part]}),
\* okText(label, data) on success
ApiHandler(verb, route, part, label) ==
  [kind |-> "api", verb |-> verb, route |-> route, part |-> part, label |-> label]

ToolDef(name, description, handler) ==
  [name |-> JStr(name), description |-> JStr(description),
   inputSchema |-> Schema, outputSchema |-> Schema, handler |-> handler]

\* register: the guard of registerTool; the tool is pushed when it passes,
\* and when it fails register throws with the registry as it was
registerOk(opts) == opts.name.t = "str" /\ opts.handler.kind # "notcallable"

\* a register that puts the tool in front (unshift for push)
registerFront(ts, opts) == IF registerOk(opts) THEN <<opts>> \o ts ELSE ts

register(ts, opts) == IF registerOk(opts) THEN Append(ts, opts) ELSE ts

makeToolRegistry == <<>>

AmelloTools ==
  << ToolDef("ping", "Health check", [kind |-> "ping"]),
     ToolDef("booking_search", "GET /booking/search",
             ApiHandler("GET", "/booking/search", "query", "BookingSearch OK")),
     ToolDef("booking_cancel", "POST /booking/cancel",
             ApiHandler("POST", "/booking/cancel", "body", "BookingCancel OK")),
     ToolDef("find_hotels", "POST /find-hotels",
             ApiHandler("POST", "/find-hotels", "body", "FindHotels OK")),
     ToolDef("currencies_list", "GET /currencies",
             ApiHandler("GET", "/currencies", "query", "Currencies OK")),
     ToolDef("hotels_list", "GET /hotels",
             ApiHandler("GET", "/hotels", "query", "Hotels OK")),
     ToolDef("hotel_offers", "POST /hotel/offer",
             ApiHandler("POST", "/hotel/offer", "body", "HotelOffers OK")),
     ToolDef("hotel_reference", "GET /hotel-reference",
             ApiHandler("GET", "/hotel-reference", "query", "HotelReference OK")),
     ToolDef("crapi_hotel_contact", "GET /crapi/hotel/contact",
             ApiHandler("GET", "/crapi/hotel/contact", "query", "CRAPI HotelContact OK")),
     ToolDef("package_offer", "POST /offer/package",
             ApiHandler("POST", "/offer/package", "body", "PackageOffer OK")) >>

RECURSIVE registerAll(_, _)
registerAll(ts, defs) ==
  IF defs = <<>> THEN ts ELSE registerAll(register(ts, Head(defs)), Tail(defs))

\* registerAmelloTools(server): the ten registrations, then the deployment's
registerAmelloTools(ts, extra) == registerAll(registerAll(ts, AmelloTools), extra)

\* a lookup that falls back to the first tool
FindToolOrFirst(ts, name) ==
  LET hits == {i \in DOMAIN ts : ts[i].name = name}
  IN IF hits = {} THEN 1 ELSE CHOOSE i \in hits : \A j \in hits : i <= j

\* a lookup that returns the last match
FindToolLast(ts, name) ==
  LET hits == {i \in DOMAIN ts : ts[i].name = name}
  IN IF hits = {} THEN 0 ELSE CHOOSE i \in hits : \A j \in hits : i >= j

\* tools.find(t => t.name === name): the first match, 0 when there is none
FindTool(ts, name) ==
  LET hits == {i \in DOMAIN ts : ts[i].name = name}
  IN IF hits = {} THEN 0 ELSE CHOOSE i \in hits : \A j \in hits : i <= j

(* ------------------------------ outbound ------------------------------- *)

\* what the booking API sends back for the data of a successful call
UpstreamData == JObj([data |-> JObj([results |-> JArr(<<JObj([id |-> JStr("h1")])>>)])])

\* what fetch() can do: reject (network failure, abort by the timeout timer) or
\* resolve with a status, a content type (json or not) and a body text
FetchOutcomes ==
  { [kind |-> "response", status |-> 200, json |-> TRUE, text |-> [k |-> "json", v |-> UpstreamData]],
    [kind |-> "response", status |-> 200, json |-> TRUE, text |-> [k |-> "json", v |-> JHuge]],
    [kind |-> "response", status |-> 200, json |-> TRUE, text |-> [k |-> "empty"]],
    [kind |-> "response", status |-> 200, json |-> TRUE, text |-> [k |-> "garbage"]],
    [kind |-> "response", status |-> 200, json |-> FALSE, text |-> [k |-> "garbage"]],
    [kind |-> "response", status |-> 500, json |-> TRUE, text |-> [k |-> "garbage"]],
    [kind |-> "response", status |-> 404, json |-> FALSE, text |-> [k |-> "empty"]],
    [kind |-> "network"],
    [kind |-> "abort"] }

\* no fetch has settled
NoFetch == [kind |-> "none"]

\* the call failed upstream: non-2xx status, network failure or timeout abort
UpstreamFailed(o) ==
  o.kind \in {"network", "abort"} \/ (o.kind = "response" /\ o.status \notin 200..299)

Returned(v) == [threw |-> FALSE, value |-> v, message |-> Undefined]
Threw(m) == [threw |-> TRUE, value |-> Undefined, message |-> JStr(m)]

\* the request callApi hands to fetch: init.body only for a verb with a body
callApiRequest(verb, route, args) ==
  [verb |-> verb, route |-> route,
   query |-> (IF Truthy(Get(args, "query")) THEN Get(args, "query") ELSE EmptyObj),
   headers |-> (IF Truthy(Get(args, "headers")) THEN Get(args, "headers") ELSE EmptyObj),
   body |-> (IF verb \notin {"GET", "HEAD"} THEN Get(args, "body") ELSE Undefined)]

\* callApi from the moment fetch settles with outcome o
callApi(o) ==
  CASE o.kind = "network" -> Threw("fetch failed")
    [] o.kind = "abort" -> Threw("This operation was aborted")
    [] OTHER ->
         IF o.status \notin 200..299 THEN Threw("HTTP " \o ToString(o.status))
         ELSE IF o.json
              THEN CASE o.text.k = "empty" -> Returned(EmptyObj)
                     [] o.text.k = "json" -> Returned(o.text.v)
                     [] OTHER -> Threw("Unexpected token")
              ELSE Returned(JStr("text"))

(* --------------------------- tool handlers ----------------------------- *)

TextBlock(text) == JArr(<<JObj([type |-> JStr("text"), text |-> JStr(text)])>>)

okText(text, data) ==
  IF data # Undefined
  THEN JObj([content |-> TextBlock(text), structuredContent |-> data])
  ELSE JObj([content |-> TextBlock(text)])

errText(message) == JObj([content |-> TextBlock(message), isError |-> JBool(TRUE)])

\* the ping handler
PingResult ==
  JObj([content |-> TextBlock("pong"),
        structuredContent |-> JObj([ok |-> JBool(TRUE), message |-> JStr("pong")])])

\* the text find_hotels puts in front of its data
FindHotelsLabel(data) ==
  LET r == Get(Get(data, "data"), "results")
      n == IF r.t = "arr" THEN Len(r.a) ELSE 0
  IN "FindHotels OK (" \o ToString(n) \o " results)"

\* a built-in handler without its catch: the failure of callApi propagates
ApiToolResultRethrow(tool, r) ==
  IF r.threw THEN r ELSE Returned(okText(tool.handler.label, r.value))

\* a built-in handler from the moment its callApi settles with r: the try
\* returns okText, the catch returns errText
ApiToolResult(tool, r) ==
  IF r.threw
  THEN Returned(errText(tool.name.s \o " failed: " \o r.message.s))
  ELSE Returned(okText(IF tool.name.s = "find_hotels" THEN FindHotelsLabel(r.value)
                       ELSE tool.handler.label, r.value))

(* ------------------------------ JSON-RPC ------------------------------- *)

\* a normalisation that lets every object through, with or without a method
normalizeReqLenient(x) ==
  IF ~Truthy(x) \/ ~IsObjectType(x) THEN JNull
  ELSE JObj([jsonrpc |-> JStr("2.0"), id |-> Coalesce(Get(x, "id"), JNull),
             method |-> Get(x, "method"), params |-> Get(x, "params")])

normalizeReq(x) ==
  IF ~Truthy(x) \/ ~IsObjectType(x) THEN JNull
  ELSE IF Get(x, "method").t = "str"
       THEN JObj([jsonrpc |-> JStr("2.0"), id |-> Coalesce(Get(x, "id"), JNull),
                  method |-> Get(x, "method"), params |-> Get(x, "params")])
       ELSE JNull

\* a choice of arguments with a third source: the properties of params
\* other than name, when there is neither arguments nor args
CallArgsWithRest(params) ==
  IF Has(params, "arguments") THEN Get(params, "arguments")
  ELSE IF Has(params, "args") THEN Get(params, "args")
  ELSE IF params.t = "obj" /\ DOMAIN params.f \ {"name"} # {}
  THEN JObj([k \in DOMAIN params.f \ {"name"} |-> params.f[k]])
  ELSE EmptyObj

\* const args = (params && (params.arguments ?? params.args)) || {}
CallArgs(params) ==
  LET a == IF Truthy(params)
           THEN Coalesce(Get(params, "arguments"), Get(params, "args"))
           ELSE params
  IN IF Truthy(a) THEN a ELSE EmptyObj

\* the tool tools/call looks up: tools.find over params?.name
CalledTool(reqObj, ts) ==
  IF Get(reqObj, "method") = JStr("tools/call")
  THEN FindTool(ts, Get(Get(reqObj, "params"), "name"))
  ELSE 0

ListEntry(t) ==
  JObj([name |-> t.name,
        description |-> (IF Truthy(t.description) THEN t.description ELSE JStr("")),
        inputSchema |-> (IF Truthy(t.inputSchema) THEN t.inputSchema ELSE EmptyObj),
        outputSchema |-> (IF Truthy(t.outputSchema) THEN t.outputSchema ELSE EmptyObj)])

\* a handler that throws is reported as a tool result
CallOutcomeThrowAsResult(id, h) ==
  IF h.threw THEN rpcResult(id, errText(h.message.s)) ELSE rpcResult(id, h.value)

\* the try/catch around the awaited tool.handler(args), which settled as h
CallOutcome(id, h) ==
  IF h.threw
  THEN rpcError(id, -32603, "Tool execution error", h.message)
  ELSE rpcResult(id, h.value)

\* handleRpcSingle; h is how the awaited tool.handler(args) settled, read
\* only when a tool was found
handleRpcSingle(reqObj, ts, h) ==
  LET id == Get(reqObj, "id")
      method == Get(reqObj, "method")
      params == Get(reqObj, "params")
      name == Get(params, "name")
  IN IF method = JStr("tools/list")
     THEN rpcResult(id, JObj([tools |-> JArr([i \in DOMAIN ts |-> ListEntry(ts[i])])]))
     ELSE IF method = JStr("tools/call")
     THEN IF FindTool(ts, name) = 0
          THEN rpcError(id, -32601, "Tool not found: " \o ToStr(name), Undefined)
          ELSE CallOutcome(id, h)
     ELSE rpcError(id, -32601, "Unknown method: " \o ToStr(method), Undefined)

(* ------------------------------ responses ------------------------------ *)

NoResponse == [sent |-> 0, status |-> 0, body |-> Undefined]

\* sendJson(res, status, obj), JSON.stringify having returned
sendJson(r, status, obj) ==
  [sent |-> r.sent + 1, status |-> status, body |-> Stringify(obj)]

\* res.statusCode = 204; res.end()
sendNoContent(r) == [sent |-> r.sent + 1, status |-> 204, body |-> Undefined]

ReadyBody ==
  JObj([ok |-> JBool(TRUE),
        message |-> JStr("MCP endpoint ready. POST JSON-RPC to this URL.")])

\* the body the top-level catch sends
CrashBody ==
  JObj([error |-> JObj([code |-> JStr("500"),
                        message |-> JStr("Top-level handler crash"),
                        detail |-> JStr("RangeError: Invalid string length")])])

\* sendJson inside the handler's try: JSON.stringify is its first statement,
\* so when it throws nothing has been sent and the catch sends the 500
trySendJson(r, status, obj) ==
  IF CanStringify(obj) THEN sendJson(r, status, obj) ELSE sendJson(r, 500, CrashBody)

(* ------------------------------- inputs -------------------------------- *)

MkReq(id, method, params) ==
  ObjOf({<<"jsonrpc", JStr("2.0")>>, <<"id", id>>, <<"method", method>>,
         <<"params", params>>})

QueryArgs == JObj([query |-> JObj([locale |-> JStr("en_DE")])])
BodyArgs == JObj([body |-> JObj([hotelId |-> JStr("h1"), locale |-> JStr("de_DE")])])

Call(id, params) == MkReq(id, JStr("tools/call"), params)

\* the elements a request body is made of: request objects with and without
\* id, method, params, name, arguments, args, with the arguments as bare
\* properties of params, and values that are no objects
Elements ==
  { MkReq(JNum(7), JStr("tools/list"), Undefined),
    MkReq(Undefined, JStr("tools/list"), Undefined),
    MkReq(JStr("a"), JStr("bogus"), Undefined),
    MkReq(JNum(7), Undefined, Undefined),
    MkReq(Undefined, JNum(5), Undefined),
    Call(JNum(0), ObjOf({<<"name", JStr("ping")>>})),
    Call(JNum(7), ObjOf({<<"name", JStr("currencies_list")>>, <<"arguments", QueryArgs>>,
                         <<"args", BodyArgs>>})),
    Call(JStr("a"), ObjOf({<<"name", JStr("find_hotels")>>, <<"args", BodyArgs>>})),
    Call(JNum(7), ObjOf({<<"name", JStr("nope")>>})),
    Call(JNull, ObjOf({<<"arguments", QueryArgs>>})),
    Call(JStr("a"), Undefined),
    Call(JNum(7), ObjOf({<<"name", JStr("boom")>>})),
    Call(JNum(7), ObjOf({<<"name", JStr("ping")>>,
                         <<"query", JObj([locale |-> JStr("en_DE")])>>})),
    Call(JNum(0), ObjOf({<<"name", JStr("ping")>>, <<"arguments", JBool(FALSE)>>,
                         <<"args", QueryArgs>>})),
    JNum(5),
    JNull }

Batches == UNION {[1..n -> Elements] : n \in 0..MaxBatch}

JsonBodies ==
  Elements \cup {JNum(0), JBool(FALSE), JBool(TRUE), JStr(""), JStr("x")}
           \cup {JArr(b) : b \in Batches}

RawBodies ==
  {[bom |-> FALSE, text |-> [k |-> "json", v |-> v]] : v \in JsonBodies}
  \cup {[bom |-> b, text |-> [k |-> k]] : b \in BOOLEAN, k \in {"empty", "garbage"}}
  \cup {[bom |-> TRUE, text |-> [k |-> "json", v |-> MkReq(JNum(7), JStr("tools/list"), Undefined)]]}

NoBody == [bom |-> FALSE, text |-> [k |-> "empty"]]

\* what req.body holds when the platform has read the stream before the
\* handler runs: the parsed object, the text, or its bytes
BodyProps == {"object", "string", "buffer"}

\* stream is the state of the request stream when the handler runs: it will
\* deliver body and end ("flowing"), it will emit "error", or it has ended
\* already ("consumed") and what it delivered is in req.body (bodyProp)
HttpRequests ==
  {[method |-> "POST", sse |-> FALSE, stream |-> "flowing", bodyProp |-> "none", body |-> b] :
     b \in RawBodies}
  \cup {[method |-> "POST", sse |-> FALSE, stream |-> "error", bodyProp |-> "none",
         body |-> [bom |-> FALSE, text |-> [k |-> "garbage"]]]}
  \cup {[method |-> "POST", sse |-> FALSE, stream |-> "consumed", bodyProp |-> p,
         body |-> [bom |-> FALSE,
                   text |-> [k |-> "json", v |-> MkReq(JNum(1), JStr("tools/list"), Undefined)]]] :
          p \in BodyProps}
  \cup {[method |-> m, sse |-> a, stream |-> "flowing", bodyProp |-> "none", body |-> NoBody] :
          m \in {"OPTIONS", "HEAD", "GET", "DELETE", "PUT"}, a \in BOOLEAN}

\* a tool whose handler throws
BoomTool == ToolDef("boom", "always throws", [kind |-> "throws"])

\* a second tool under the name of the built-in ping
PingAgain == ToolDef("ping", "registered again", [kind |-> "throws"])

CustomRegistrations == {<<>>, <<BoomTool, PingAgain>>}

(* ------------------------------- actions ------------------------------- *)

\* the invocations that can be in flight at a time
Slots == 1..MaxInFlight

\* a slot without an invocation
NoInvocation ==
  [pc |-> "idle",
   req |-> [method |-> "GET", sse |-> FALSE, stream |-> "flowing", bodyProp |-> "none",
            body |-> NoBody],
   parsed |-> [obj |-> Undefined, err |-> Undefined],
   inst |-> 0, requests |-> <<>>, calls |-> <<>>, res |-> NoResponse]

\* no register has been called
NoRegister == [called |-> FALSE]

\* the module before any concurrent invocation, and a registry as
\* makeToolRegistry returns it
ConcIdle ==
  /\ registry = makeToolRegistry
  /\ lastRegister = NoRegister
  /\ inflight = [s \in Slots |-> NoInvocation]
  /\ servers = <<>>
  /\ serverPromise = 0

\* the chat endpoint before a request
ChatIdle ==
  /\ cpc = "idle"
  /\ creq = [method |-> "GET", raw |-> [k |-> "empty"]]
  /\ oaTools = JArr(<<>>)
  /\ messages = JArr(<<>>)
  /\ msg = Undefined
  /\ toolResults = JArr(<<>>)
  /\ next = 0
  /\ iter = 0
  /\ outbound = <<>>
  /\ cres = NoResponse

Init ==
  /\ custom \in CustomRegistrations
  /\ pc = "idle"
  /\ req = [method |-> "GET", sse |-> FALSE, stream |-> "flowing", bodyProp |-> "none",
            body |-> NoBody]
  /\ parsed = [obj |-> Undefined, err |-> Undefined]
  /\ tools = <<>>
  /\ requests = <<>>
  /\ calls = <<>>
  /\ res = NoResponse
  /\ invoked = <<>>
  /\ apiCalls = <<>>
  /\ variant = "js"
  /\ apiKey = TRUE
  /\ ChatIdle
  /\ draft = "rpc"
  /\ ConcIdle

\* the platform invokes the handler with a request. An invocation keeps
\* nothing of an earlier one (the registry is built at line 792 of every
\* invocation), so one invocation from the initial state is every invocation.
Receive(r) ==
  /\ pc = "idle"
  /\ pc' = "handler"
  /\ req' = r
  /\ parsed' = [obj |-> Undefined, err |-> Undefined]
  /\ tools' = <<>>
  /\ requests' = <<>>
  /\ calls' = <<>>
  /\ res' = NoResponse
  /\ invoked' = <<>>
  /\ apiCalls' = <<>>
  /\ UNCHANGED custom
  /\ UNCHANGED <<chatVars, concVars, regVars>>

\* a method check that answers every GET with the readiness object
HandlerMethodGetAlwaysReady ==
  /\ pc = "handler"
  /\ IF req.method \in {"OPTIONS", "HEAD"}
     THEN pc' = "sent" /\ res' = sendNoContent(res)
     ELSE IF req.method = "GET"
     THEN pc' = "sent" /\ res' = trySendJson(res, 200, ReadyBody)
     ELSE IF req.method # "POST"
     THEN pc' = "sent"
          /\ res' = trySendJson(res, 405, rpcError(JNull, -32601, "Method not allowed", Undefined))
     ELSE pc' = "getJsonBody" /\ UNCHANGED res
  /\ UNCHANGED <<custom, req, parsed, tools, requests, calls, invoked, apiCalls>>
  /\ UNCHANGED <<chatVars, concVars, regVars>>

\* handler, up to the await of getJsonBody: CORS, OPTIONS/HEAD, GET, 405
HandlerMethod ==
  /\ pc = "handler"
  /\ IF req.method \in {"OPTIONS", "HEAD"}
     THEN pc' = "sent" /\ res' = sendNoContent(res)
     ELSE IF req.method = "GET" /\ ~req.sse
     THEN pc' = "sent" /\ res' = trySendJson(res, 200, ReadyBody)
     ELSE IF req.method # "POST"
     THEN pc' = "sent"
          /\ res' = trySendJson(res, 405, rpcError(JNull, -32601, "Method not allowed", Undefined))
     ELSE pc' = "getJsonBody" /\ UNCHANGED res
  /\ UNCHANGED <<custom, req, parsed, tools, requests, calls, invoked, apiCalls>>
  /\ UNCHANGED <<chatVars, concVars, regVars>>

\* the awaited getJsonBody(req) resolves: the stream emits "end" or "error".
\* A stream that has ended already emits neither, and req.body is not read.
GetJsonBody ==
  /\ pc = "getJsonBody"
  /\ req.stream \in {"flowing", "error"}
  /\ parsed' = getJsonBody(req)
  /\ pc' = "parsed"
  /\ UNCHANGED <<custom, req, tools, requests, calls, res, invoked, apiCalls>>
  /\ UNCHANGED <<chatVars, concVars, regVars>>

\* a normalisation that drops the invalid elements of a batch
NormalizeValid(obj) ==
  IF obj.t = "arr"
  THEN SelectSeq([i \in DOMAIN obj.a |-> normalizeReq(obj.a[i])], LAMBDA x : Truthy(x))
  ELSE <<normalizeReq(obj)>>

\* const requests = Array.isArray(obj) ? obj.map(normalizeReq) : [normalizeReq(obj)]
NormalizeAll(obj) ==
  IF obj.t = "arr" THEN [i \in DOMAIN obj.a |-> normalizeReq(obj.a[i])]
  ELSE <<normalizeReq(obj)>>

\* handler from the parse check to the validity check: 400 on no obj, the
\* registry of this invocation, normalisation, 400 on an invalid element
HandlerValidate ==
  /\ pc = "parsed"
  /\ IF ~Truthy(parsed.obj)
     THEN /\ res' = trySendJson(res, 400,
                      rpcError(JNull, -32700, "Parse error",
                               IF Truthy(parsed.err) THEN parsed.err ELSE JStr("Invalid JSON")))
          /\ pc' = "sent"
          /\ UNCHANGED <<tools, requests, calls>>
     ELSE /\ tools' = registerAmelloTools(makeToolRegistry, custom)
          /\ LET rs == NormalizeAll(parsed.obj)
             IN IF \E i \in DOMAIN rs : ~Truthy(rs[i])
                THEN /\ res' = trySendJson(res, 400,
                                 rpcError(JNull, -32600, "Invalid Request", Undefined))
                     /\ pc' = "sent"
                     /\ UNCHANGED <<requests, calls>>
                ELSE /\ requests' = rs
                     /\ calls' = [i \in DOMAIN rs |->
                                    [st |-> "new", out |-> Undefined, fetch |-> NoFetch]]
                     /\ pc' = "dispatch"
                     /\ UNCHANGED res
  /\ UNCHANGED <<custom, req, parsed, invoked, apiCalls>>
  /\ UNCHANGED <<chatVars, concVars, regVars>>

RECURSIVE Concat(_)
\* the concatenation of a sequence of sequences
Concat(ss) == IF ss = <<>> THEN <<>> ELSE Head(ss) \o Concat(Tail(ss))

\* handleRpcSingle(r, tools) from its call to its first real await: the
\* lookup, the call of tool.handler(args), and for a built-in tool the fetch
\* that callApi issues. inv and api are what it invoked and called.
StartCall(i, reqObj, ts) ==
  LET k == CalledTool(reqObj, ts)
      args == CallArgs(Get(reqObj, "params"))
      inv == [element |-> i, tool |-> k, name |-> ts[k].name, args |-> args]
      h == ts[k].handler
  IN IF k = 0
     THEN [st |-> "done", out |-> handleRpcSingle(reqObj, ts, Returned(Undefined)),
           inv |-> <<>>, api |-> <<>>]
     ELSE CASE h.kind = "ping" ->
                 [st |-> "done", out |-> handleRpcSingle(reqObj, ts, Returned(PingResult)),
                  inv |-> <<inv>>, api |-> <<>>]
            [] h.kind = "throws" ->
                 [st |-> "done", out |-> handleRpcSingle(reqObj, ts, Threw("boom")),
                  inv |-> <<inv>>, api |-> <<>>]
            [] OTHER ->
                 [st |-> "waiting", out |-> Undefined, inv |-> <<inv>>,
                  api |-> <<callApiRequest(h.verb, h.route,
                              ObjOf({<<"headers", Get(args, "headers")>>,
                                     <<h.part, Get(args, h.part)>>}))>>]

\* requests.map(r => handleRpcSingle(r, tools)): every element is started, in
\* order, before anything is awaited
Dispatch ==
  /\ pc = "dispatch"
  /\ LET started == [i \in DOMAIN requests |-> StartCall(i, requests[i], tools)]
     IN /\ calls' = [i \in DOMAIN requests |->
                        [st |-> started[i].st, out |-> started[i].out, fetch |-> NoFetch]]
        /\ invoked' = Concat([i \in DOMAIN requests |-> started[i].inv])
        /\ apiCalls' = Concat([i \in DOMAIN requests |-> started[i].api])
  /\ pc' = "await"
  /\ UNCHANGED <<custom, req, parsed, tools, requests, res>>
  /\ UNCHANGED <<chatVars, concVars, regVars>>

\* the fetch of element i settles with outcome o: callApi returns or throws,
\* the tool handler returns, handleRpcSingle resolves
FetchSettles(i, o) ==
  /\ pc = "await"
  /\ i \in DOMAIN calls
  /\ calls[i].st = "waiting"
  /\ LET k == CalledTool(requests[i], tools)
         h == ApiToolResult(tools[k], callApi(o))
     IN calls' = [calls EXCEPT ![i] = [st |-> "done", fetch |-> o,
                                       out |-> handleRpcSingle(requests[i], tools, h)]]
  /\ UNCHANGED <<custom, pc, req, parsed, tools, requests, res, invoked, apiCalls>>
  /\ UNCHANGED <<chatVars, concVars, regVars>>

\* a payload that is an array whatever the number of requests
ResultPayloadAlwaysArray(cs) == JArr([i \in DOMAIN cs |-> cs[i].out])

\* what the handler sends once every promise has resolved: the one result
\* when there is one request, the array of results otherwise
ResultPayload(cs) ==
  IF Len(cs) = 1 THEN cs[1].out ELSE JArr([i \in DOMAIN cs |-> cs[i].out])

\* the await of handleRpcSingle / Promise.all resumes: sendJson(res, 200, ...)
SendResults ==
  /\ pc = "await"
  /\ \A i \in DOMAIN calls : calls[i].st = "done"
  /\ res' = trySendJson(res, 200, ResultPayload(calls))
  /\ pc' = "sent"
  /\ UNCHANGED <<custom, req, parsed, tools, requests, calls, invoked, apiCalls>>
  /\ UNCHANGED <<chatVars, concVars, regVars>>

Next ==
  \/ \E r \in HttpRequests : Receive(r)
  \/ HandlerMethod
  \/ GetJsonBody
  \/ HandlerValidate
  \/ Dispatch
  \/ \E i \in 1..(MaxBatch + 1), o \in FetchOutcomes : FetchSettles(i, o)
  \/ SendResults

Spec == Init /\ [][Next]_vars

\* The event loop runs every continuation that is ready, a request stream
\* that has not ended emits "end" or "error", and every fetch settles, by
\* the abort timer of callApi at the latest.
FairSpec ==
  /\ Spec
  /\ WF_vars(HandlerMethod)
  /\ WF_vars(GetJsonBody)
  /\ WF_vars(HandlerValidate)
  /\ WF_vars(Dispatch)
  /\ WF_vars(\E i \in 1..(MaxBatch + 1), o \in FetchOutcomes : FetchSettles(i, o))
  /\ WF_vars(SendResults)

(* ======================= the chat endpoint ============================ *)
(* src/api/chat.ts is the two-pass handler, src/api/chat.js the handler   *)
(* that loops; variant says which of them serves the request.             *)

(* ------------------------- strings of JSON text ------------------------ *)

\* a string that is the JSON text of v; its characters are not modelled
JsonString(v) == [t |-> "str", s |-> "<json>", parses |-> TRUE, v |-> v]

\* a non-empty string JSON.parse rejects
BadJsonString == [t |-> "str", s |-> "{oops", parses |-> FALSE]

\* JSON.parse(x) of a string x
JSONparse(x) ==
  IF "parses" \in DOMAIN x /\ x.parses THEN Returned(x.v) ELSE Threw("Unexpected token")

\* JSON.stringify(v) as a string value
JSONstringify(v) == JsonString(Stringify(v))

\* the object without its property k (delete obj[k])
Without(obj, k) == JObj([j \in DOMAIN obj.f \ {k} |-> obj.f[j]])

\* [...a, ...b] of two arrays
Spread(a, b) == JArr(a.a \o b.a)

(* --------------------------- the Router -------------------------------- *)

LocaleSchema ==
  JObj([type |-> JStr("object"),
        properties |-> JObj([locale |-> JObj([type |-> JStr("string")])])])

\* the catalog the Router's tools/list returns: a tool whose schema has a
\* headers property, and a tool without parameters
Catalog ==
  JArr(<<JObj([name |-> JStr("currencies_list"),
               description |-> JStr("List currencies"),
               inputSchema |->
                 JObj([type |-> JStr("object"),
                       properties |-> JObj([headers |-> JObj([type |-> JStr("object")]),
                                            query |-> LocaleSchema]),
                       required |-> JArr(<<JStr("query")>>)])]),
         JObj([name |-> JStr("ping"),
               description |-> JStr("Health check"),
               inputSchema |-> JObj([type |-> JStr("object"), properties |-> EmptyObj])])>>)

ListResult == JObj([tools |-> Catalog])

\* the result of a tools/call: okText(label, data)
CallResult == okText("Currencies", JObj([data |-> JArr(<<JStr("EUR")>>)]))

\* how a request to the Router ends: a 2xx response carrying a JSON-RPC
\* result or error, a non-2xx response with a body that is not JSON, a
\* network failure, or no response within the time limit
McpResult(result) ==
  [kind |-> "response", ok |-> TRUE, status |-> 200, statusText |-> "OK",
   json |-> rpcResult(JNum(1), result)]

McpRpcError ==
  [kind |-> "response", ok |-> TRUE, status |-> 200, statusText |-> "OK",
   json |-> rpcError(JNum(1), -32603, "Tool execution error", Undefined)]

McpHttpError ==
  [kind |-> "response", ok |-> FALSE, status |-> 502, statusText |-> "Bad Gateway",
   json |-> Undefined]

McpNetwork == [kind |-> "network"]

McpTimeout == [kind |-> "timeout"]

ListOutcomes == {McpResult(ListResult), McpRpcError, McpHttpError, McpNetwork, McpTimeout}

CallOutcomes == {McpResult(CallResult), McpRpcError, McpHttpError, McpTimeout}

ErrorOf(j, k) == Get(Get(j, "error"), k)

\* the outcome of a request that has not settled
Pending == [kind |-> "pending"]

\* a request to the Router, and in outcome how it ended
McpRequest(method, params) ==
  [to |-> "mcp", method |-> method, params |-> params, outcome |-> Pending]

\* chat.ts rpc(method, params) from the moment its fetch settles with o
rpc(o) ==
  CASE o.kind = "network" -> Threw("fetch failed")
    [] o.kind = "timeout" -> Threw("This operation was aborted")
    [] OTHER ->
         IF ~o.ok THEN Threw("MCP HTTP " \o ToString(o.status) \o " " \o o.statusText)
         ELSE IF o.json = Undefined THEN Threw("Unexpected token")
         ELSE IF Truthy(Get(o.json, "error"))
         THEN Threw("MCP " \o ToStr(ErrorOf(o.json, "code")) \o ": "
                         \o ToStr(ErrorOf(o.json, "message")))
         ELSE Returned(Get(o.json, "result"))

\* chat.js: the fetch of mcpListTools / mcpCallTool settles with o; what
\* stands for `what` in the message is "tools/list" or "tools/call"
mcpFetch(what, o) ==
  CASE o.kind = "network" -> Threw("fetch failed")
    [] OTHER ->
         IF o.json = Undefined THEN Threw("Unexpected token")
         ELSE IF ~o.ok \/ Truthy(Get(o.json, "error"))
         THEN Threw("MCP " \o what \o " failed: "
                    \o (IF Truthy(ErrorOf(o.json, "message"))
                        THEN ToStr(ErrorOf(o.json, "message")) ELSE o.statusText))
         ELSE Returned(Get(o.json, "result"))

\* chat.js mcpListTools: json.result.tools || []
mcpListTools(o) ==
  LET r == mcpFetch("tools/list", o)
  IN IF r.threw THEN r
     ELSE Returned(IF Truthy(Get(r.value, "tools")) THEN Get(r.value, "tools") ELSE JArr(<<>>))

\* chat.js mcpCallTool
mcpCallTool(o) == mcpFetch("tools/call", o)

\* chat.ts toOpenAITools: type, properties and required of the schema, the
\* headers property deleted
OpenAIToolTs(t) ==
  LET schema == Get(t, "inputSchema")
      props == Coalesce(Get(schema, "properties"), EmptyObj)
      params == IF Truthy(schema) /\ IsObjectType(schema)
                THEN JObj([type |-> JStr("object"),
                           properties |-> (IF Truthy(Get(props, "headers"))
                                           THEN Without(props, "headers") ELSE props),
                           required |-> Coalesce(Get(schema, "required"), JArr(<<>>))])
                ELSE JObj([type |-> JStr("object"), properties |-> EmptyObj])
  IN JObj([type |-> JStr("function"),
           function |-> JObj([name |-> Get(t, "name"),
                              description |-> Coalesce(Get(t, "description"), JStr("")),
                              parameters |-> params])])

\* chat.js toOpenAITools: the schema as the Router gave it
OpenAIToolJs(t) ==
  JObj([type |-> JStr("function"),
        function |->
          JObj([name |-> Get(t, "name"),
                description |-> (IF Truthy(Get(t, "description"))
                                 THEN Get(t, "description") ELSE JStr("")),
                parameters |-> (IF Truthy(Get(t, "inputSchema"))
                                THEN Get(t, "inputSchema")
                                ELSE JObj([type |-> JStr("object")]))])])

toOpenAITools(v, mcpTools) ==
  JArr([i \in DOMAIN mcpTools.a |->
          IF v = "ts" THEN OpenAIToolTs(mcpTools.a[i]) ELSE OpenAIToolJs(mcpTools.a[i])])

(* ----------------------- the completion API ---------------------------- *)

ToolCall(id, name, arguments) ==
  JObj([id |-> JStr(id), type |-> JStr("function"),
        function |-> JObj([name |-> JStr(name), arguments |-> arguments])])

\* tool calls a model emits: arguments that are JSON text, arguments that
\* are not, and the empty string
CallA ==
  ToolCall("call_a", "currencies_list",
           JsonString(JObj([query |-> JObj([locale |-> JStr("en_DE")])])))

CallBad == ToolCall("call_b", "ping", BadJsonString)

CallC == ToolCall("call_c", "ping", JStr(""))

AssistantMessage(content, toolCalls) ==
  ObjOf({<<"role", JStr("assistant")>>, <<"content", content>>, <<"tool_calls", toolCalls>>})

FinalAnswer == AssistantMessage(JStr("EUR is supported."), Undefined)

\* the assistant messages that ask for tools
ToolTurns ==
  {AssistantMessage(JNull, JArr(<<CallA>>)),
   AssistantMessage(JNull, JArr(<<CallBad, CallA>>)),
   AssistantMessage(JNull, JArr(<<CallA, CallBad>>)),
   AssistantMessage(JStr("Let me check."), JArr(<<CallC, CallA>>))}

\* how a completion request ends: choices[0].message, no choice, an error.
\* The model asks for tools only when the request advertised some.
Completions(toolsGiven) ==
  {[kind |-> "ok", message |-> m] :
     m \in {FinalAnswer} \cup (IF toolsGiven THEN ToolTurns ELSE {})}
  \cup {[kind |-> "nochoice"], [kind |-> "error"]}

\* a request to the completion API; tools is undefined when none are sent
OpenAIRequest(ms, ts) ==
  [to |-> "openai", messages |-> ms, tools |-> ts, outcome |-> Pending]

(* --------------------------- chat requests ----------------------------- *)

UserText == JStr("What currencies do you support for en_DE?")

Message(role, content) == JObj([role |-> JStr(role), content |-> content])

History == JArr(<<Message("user", JStr("hi")), Message("assistant", JStr("hello"))>>)

\* bodies for chat.ts: message and history
TsBodies ==
  {JObj([message |-> UserText, history |-> History]),
   JObj([message |-> UserText]),
   JObj([message |-> JNum(5)]),
   JObj([message |-> JStr("")]),
   EmptyObj}

\* bodies for chat.js: messages and system
JsBodies ==
  {JObj([messages |-> Spread(History, JArr(<<Message("user", UserText)>>))]),
   JObj([system |-> JStr("Be brief."), messages |-> JStr("hi")]),
   JNum(0)}

ChatRequests(v) ==
  {[method |-> "POST", raw |-> [k |-> "json", v |-> b]] :
     b \in (IF v = "ts" THEN TsBodies ELSE JsBodies)}
  \cup {[method |-> "POST", raw |-> [k |-> "empty"]]}
  \cup (IF v = "js" THEN {[method |-> "POST", raw |-> [k |-> "garbage"]]} ELSE {})
  \cup {[method |-> m, raw |-> [k |-> "empty"]] : m \in {"GET", "OPTIONS"}}

\* req.body of chat.ts: the body as the platform parsed it
PlatformBody(r) == IF r.raw.k = "json" THEN r.raw.v ELSE Undefined

(* --------------------------- chat handlers ----------------------------- *)

SystemPromptTs == JStr("You can call tools via MCP when available. Be concise and precise.")

SystemPromptJs == JStr("You are a helpful assistant. Use available tools when helpful.")

StoppedReply == JStr("(stopped after 4 tool iterations)")

\* the number of completion requests chat.js makes at most
MaxIterations == 4

\* the state of a handler invocation
Cur ==
  [cpc |-> cpc, oaTools |-> oaTools, messages |-> messages, msg |-> msg,
   toolResults |-> toolResults, next |-> next, iter |-> iter,
   outbound |-> outbound, cres |-> cres, apiKey |-> apiKey]

Apply(n) ==
  /\ cpc' = n.cpc
  /\ oaTools' = n.oaTools
  /\ messages' = n.messages
  /\ msg' = n.msg
  /\ toolResults' = n.toolResults
  /\ next' = n.next
  /\ iter' = n.iter
  /\ outbound' = n.outbound
  /\ cres' = n.cres
  /\ UNCHANGED <<variant, creq, apiKey>>
  /\ UNCHANGED <<rpcVars, concVars, regVars>>

\* the response is sent and the handler returns
Respond(c, status, obj) ==
  [c EXCEPT !.cpc = "sent",
            !.cres = [sent |-> c.cres.sent + 1, status |-> status, body |-> Stringify(obj)]]

\* res.end() without a body
RespondEmpty(c) ==
  [c EXCEPT !.cpc = "sent",
            !.cres = [sent |-> c.cres.sent + 1, status |-> 200, body |-> Undefined]]

ErrorBody(m) == JObj([error |-> m])

\* a request is sent and the handler awaits its outcome at position p
Await(c, request, p) == [c EXCEPT !.cpc = p, !.outbound = Append(c.outbound, request)]

\* the request awaited has settled with outcome o
Settled(c, o) == [c EXCEPT !.outbound[Len(c.outbound)].outcome = o]

\* chat.ts, the statements of the tool loop from a call to its rpc: the name
\* and the arguments, {} when they are not JSON text
TsCallRequest(call) ==
  LET f == Get(call, "function")
      a == Get(f, "arguments")
      p == IF Truthy(a) THEN JSONparse(a) ELSE Returned(EmptyObj)
      args == IF p.threw THEN EmptyObj ELSE p.value
  IN Returned(McpRequest("tools/call", JObj([name |-> Get(f, "name"), arguments |-> args])))

\* chat.js, the statements of the tool loop from a call to its mcpCallTool:
\* JSON.parse is outside the try
JsCallRequest(call) ==
  LET f == Get(call, "function")
      a == Get(f, "arguments")
      targs == IF Truthy(a) THEN JSONparse(a) ELSE Returned(EmptyObj)
  IN IF targs.threw THEN targs
     ELSE Returned(McpRequest("tools/call",
                     JObj([name |-> Get(f, "name"),
                           arguments |-> (IF Truthy(targs.value) THEN targs.value
                                          ELSE EmptyObj)])))

\* the tool calls of an assistant message
CallsOf(m) == IF Get(m, "tool_calls").t = "arr" THEN Get(m, "tool_calls").a ELSE <<>>

\* chat.ts handler, lines 50-62
TsValidateStep(c, r) ==
  IF r.method # "POST" THEN Respond(c, 405, ErrorBody(JStr("POST only")))
  ELSE LET message == Get(Coalesce(PlatformBody(r), EmptyObj), "message")
       IN IF ~Truthy(message) \/ message.t # "str"
          THEN Respond(c, 400, ErrorBody(JStr("Message is required")))
          ELSE Await(c, McpRequest("tools/list", Undefined), "list")

\* chat.ts: [system, ...history, user]
TsMessages(r) ==
  LET body == Coalesce(PlatformBody(r), EmptyObj)
      history == IF Get(body, "history") = Undefined THEN JArr(<<>>) ELSE Get(body, "history")
  IN Spread(Spread(JArr(<<Message("system", SystemPromptTs)>>), history),
            JArr(<<Message("user", Get(body, "message"))>>))

\* chat.ts handler, lines 62-81: tools/list has settled with o
TsListToolsStep(c, r, o) ==
  LET list == rpc(o)
      ts == IF ~list.threw /\ Get(list.value, "tools").t = "arr"
            THEN Get(list.value, "tools") ELSE JArr(<<>>)
      oa == IF list.threw THEN JArr(<<>>) ELSE toOpenAITools("ts", ts)
      ms == TsMessages(r)
  IN Await([c EXCEPT !.oaTools = oa, !.messages = ms, !.iter = 1],
           OpenAIRequest(ms, IF oa.a # <<>> THEN oa ELSE Undefined), "complete")

\* chat.ts handler, lines 113-116
TsReply(c, m) == Respond(c, 200, JObj([reply |-> Get(m, "content"), raw |-> m]))

\* chat.ts handler, lines 83-93 and 110-113: a completion has settled with o
TsCompleteStep(c, o) ==
  CASE o.kind = "error" -> Respond(c, 500, ErrorBody(JStr("OpenAI error")))
    [] o.kind = "nochoice" ->
         Respond(c, 500, ErrorBody(JStr("Cannot read properties of undefined")))
    [] OTHER ->
         LET m == o.message
             d == [c EXCEPT !.msg = m]
         IN IF c.iter = 1 /\ c.oaTools.a # <<>> /\ CallsOf(m) # <<>>
            THEN Await([d EXCEPT !.toolResults = JArr(<<>>), !.next = 1],
                       TsCallRequest(CallsOf(m)[1]).value, "call")
            ELSE TsReply(d, m)

\* chat.ts: the tool message of a call whose rpc ended as r
TsToolMessage(call, r) ==
  JObj([tool_call_id |-> Get(call, "id"),
        role |-> JStr("tool"),
        name |-> Get(Get(call, "function"), "name"),
        content |-> (IF r.threw THEN JStr("Tool call failed: " \o r.message.s)
                     ELSE JSONstringify(Coalesce(Get(r.value, "structuredContent"),
                                                 r.value)))])

\* a second pass that leaves the assistant's tool-call message out
TsSecondPassNoAssistant(c, results) == OpenAIRequest(Spread(c.messages, results), Undefined)

\* chat.ts handler, lines 99-109: the request of the second pass
TsSecondPass(c, results) ==
  OpenAIRequest(Spread(Spread(c.messages, JArr(<<c.msg>>)), results), Undefined)

\* chat.ts handler, lines 93-109: the tools/call in flight has settled with o
TsToolCallStep(c, o) ==
  LET cs == CallsOf(c.msg)
      results == JArr(Append(c.toolResults.a, TsToolMessage(cs[c.next], rpc(o))))
      d == [c EXCEPT !.toolResults = results]
  IN IF c.next < Len(cs)
     THEN Await([d EXCEPT !.next = c.next + 1], TsCallRequest(cs[c.next + 1]).value, "call")
     ELSE Await([d EXCEPT !.iter = 2], TsSecondPass(c, results), "complete")

\* chat.js handler, lines 82-86
JsMethodStep(c, r) ==
  IF r.method = "OPTIONS" THEN RespondEmpty(c)
  ELSE IF r.method # "POST" THEN Respond(c, 405, ErrorBody(JStr("Use POST")))
  ELSE [c EXCEPT !.cpc = "readJson"]

\* chat.js readJson
readJson(r) ==
  CASE r.raw.k = "empty" -> [obj |-> Undefined, err |-> JStr("Missing body")]
    [] r.raw.k = "json" -> [obj |-> r.raw.v, err |-> Undefined]
    [] OTHER -> [obj |-> Undefined, err |-> JStr("Invalid JSON")]

\* chat.js handler, lines 86-94: readJson has resolved
JsReadJsonStep(c, r) ==
  LET b == readJson(r)
  IN IF ~Truthy(b.obj)
     THEN Respond(c, 400, ErrorBody(IF Truthy(b.err) THEN b.err ELSE JStr("Invalid JSON")))
     ELSE Await(c, McpRequest("tools/list", Undefined), "list")

\* chat.js: [{role: "system", content: systemPrompt}, ...userMessages]
JsMessages(r) ==
  LET obj == readJson(r).obj
      userMessages == IF Get(obj, "messages").t = "arr" THEN Get(obj, "messages")
                      ELSE JArr(<<>>)
      systemPrompt == IF Truthy(Get(obj, "system")) THEN Get(obj, "system")
                      ELSE SystemPromptJs
  IN Spread(JArr(<<Message("system", systemPrompt)>>), userMessages)

\* a crash that is answered as a success
JsCrashAsSuccess(c, e) == Respond(c, 200, JObj([reply |-> e.message]))

\* chat.js handler, lines 134-137
JsCrash(c, e) == Respond(c, 500, ErrorBody(e.message))

\* chat.js callOpenAI up to its fetch: it throws when the key is missing
callOpenAI(c, ms) ==
  IF ~c.apiKey THEN JsCrash(c, Threw("Missing OPENAI_API_KEY"))
  ELSE Await(c, OpenAIRequest(ms, c.oaTools), "complete")

\* chat.js handler, lines 94-100: mcpListTools has settled with o
JsListToolsStep(c, r, o) ==
  LET mcpTools == mcpListTools(o)
  IN IF mcpTools.threw THEN JsCrash(c, mcpTools)
     ELSE LET oa == toOpenAITools("js", mcpTools.value)
              ms == JsMessages(r)
          IN callOpenAI([c EXCEPT !.oaTools = oa, !.messages = ms, !.iter = 1], ms)

\* chat.js handler, lines 133: the reply after the loop
JsStopped(c) == Respond(c, 200, JObj([messages |-> c.messages, reply |-> StoppedReply]))

\* chat.js handler, lines 114-119: the statements from the head of the tool
\* loop to the call of mcpCallTool for call k of the turn
JsStartCall(c, k) ==
  LET request == JsCallRequest(CallsOf(c.msg)[k])
  IN IF request.threw THEN JsCrash(c, request)
     ELSE Await([c EXCEPT !.next = k], request.value, "call")

\* chat.js handler, lines 100-119: a completion has settled with o
JsCompleteStep(c, o) ==
  CASE o.kind = "error" -> JsCrash(c, Threw("OpenAI error"))
    [] o.kind = "nochoice" -> JsStopped(c)
    [] OTHER ->
         LET m == o.message
             content == IF Truthy(Get(m, "content")) THEN Get(m, "content") ELSE JStr("")
             pushed == JArr(Append(c.messages.a,
                                   AssistantMessage(content, Get(m, "tool_calls"))))
             d == [c EXCEPT !.msg = m, !.messages = pushed]
         IN IF CallsOf(m) = <<>>
            THEN Respond(d, 200, JObj([messages |-> pushed, reply |-> content]))
            ELSE JsStartCall(d, 1)

\* a tool message that does not say which call it answers
JsToolMessageUnlabelled(call, r) ==
  ObjOf({<<"role", JStr("tool")>>,
         <<"content", JSONstringify(IF r.threw THEN Undefined ELSE r.value)>>})

\* chat.js: the tool message of a call whose mcpCallTool ended as r
JsToolMessage(call, r) ==
  LET toolResult == IF r.threw
                    THEN JObj([content |-> TextBlock("Tool error: " \o r.message.s),
                               isError |-> JBool(TRUE)])
                    ELSE r.value
  IN ObjOf({<<"role", JStr("tool")>>,
            <<"tool_call_id", IF Truthy(Get(call, "id")) THEN Get(call, "id") ELSE Undefined>>,
            <<"name", Get(Get(call, "function"), "name")>>,
            <<"content", JSONstringify(toolResult)>>})

\* chat.js handler, lines 119-133: the mcpCallTool in flight has settled
JsToolCallStep(c, o) ==
  LET cs == CallsOf(c.msg)
      pushed == JArr(Append(c.messages.a, JsToolMessage(cs[c.next], mcpCallTool(o))))
      d == [c EXCEPT !.messages = pushed]
  IN IF c.next < Len(cs) THEN JsStartCall(d, c.next + 1)
     ELSE IF c.iter < MaxIterations
     THEN callOpenAI([d EXCEPT !.iter = c.iter + 1], pushed)
     ELSE JsStopped(d)

(* ---------------------------- chat actions ----------------------------- *)

\* the chat endpoint alone: no request is at the RPC endpoint
ChatInit ==
  /\ variant \in {"ts", "js"}
  \* chat.ts throws while the module loads when the key is missing (line
  \* 10): its handler exists only with the key set
  /\ apiKey \in (IF variant = "ts" THEN {TRUE} ELSE BOOLEAN)
  /\ ChatIdle
  /\ draft = "rpc"
  /\ ConcIdle
  /\ custom = <<>>
  /\ pc = "idle"
  /\ req = [method |-> "GET", sse |-> FALSE, stream |-> "flowing", bodyProp |-> "none",
            body |-> NoBody]
  /\ parsed = [obj |-> Undefined, err |-> Undefined]
  /\ tools = <<>>
  /\ requests = <<>>
  /\ calls = <<>>
  /\ res = NoResponse
  /\ invoked = <<>>
  /\ apiCalls = <<>>

\* the platform invokes the chat handler with a request
ChatReceive(r) ==
  /\ cpc = "idle"
  /\ cpc' = "handler"
  /\ creq' = r
  /\ UNCHANGED <<variant, oaTools, messages, msg, toolResults, next, iter, outbound, cres,
                 apiKey>>
  /\ UNCHANGED <<rpcVars, concVars, regVars>>

\* the completion request in flight advertised tools
ToolsGiven ==
  /\ outbound # <<>>
  /\ LET q == outbound[Len(outbound)]
     IN q.to = "openai" /\ q.tools # Undefined /\ q.tools.a # <<>>

TsValidate == variant = "ts" /\ cpc = "handler" /\ Apply(TsValidateStep(Cur, creq))

TsListTools(o) == variant = "ts" /\ cpc = "list" /\ Apply(TsListToolsStep(Settled(Cur, o), creq, o))

TsComplete(o) == variant = "ts" /\ cpc = "complete" /\ Apply(TsCompleteStep(Settled(Cur, o), o))

TsToolCall(o) == variant = "ts" /\ cpc = "call" /\ Apply(TsToolCallStep(Settled(Cur, o), o))

JsMethod == variant = "js" /\ cpc = "handler" /\ Apply(JsMethodStep(Cur, creq))

JsReadJson == variant = "js" /\ cpc = "readJson" /\ Apply(JsReadJsonStep(Cur, creq))

\* the fetches of chat.js carry no abort signal: none ends by a time limit
JsListTools(o) ==
  variant = "js" /\ cpc = "list" /\ o.kind # "timeout" /\ Apply(JsListToolsStep(Settled(Cur, o), creq, o))

JsComplete(o) == variant = "js" /\ cpc = "complete" /\ Apply(JsCompleteStep(Settled(Cur, o), o))

JsToolCall(o) ==
  variant = "js" /\ cpc = "call" /\ o.kind # "timeout" /\ Apply(JsToolCallStep(Settled(Cur, o), o))

ChatNext ==
  \/ \E r \in ChatRequests(variant) : ChatReceive(r)
  \/ TsValidate
  \/ \E o \in ListOutcomes : TsListTools(o)
  \/ \E o \in Completions(ToolsGiven) : TsComplete(o)
  \/ \E o \in CallOutcomes : TsToolCall(o)
  \/ JsMethod
  \/ JsReadJson
  \/ \E o \in ListOutcomes : JsListTools(o)
  \/ \E o \in Completions(ToolsGiven) : JsComplete(o)
  \/ \E o \in CallOutcomes : JsToolCall(o)

SpecChat == ChatInit /\ [][ChatNext]_vars

(* ------------------- what the claims are stated over ------------------- *)

\* the handler has answered the request
Answered == pc = "sent"

\* the request is a POST whose body is the text of a JSON value
ReqParses == req.method = "POST" /\ req.stream = "flowing" /\ req.body.text.k = "json"

\* that JSON value
ReqJson == req.body.text.v

\* the request objects of the body: the elements of a batch, or the one value
ReqElems == IF ReqJson.t = "arr" THEN ReqJson.a ELSE <<ReqJson>>

HasStringMethod(x) == Get(x, "method").t = "str"

\* every element of the body carries a string method
AllWellFormed == \A i \in DOMAIN ReqElems : HasStringMethod(ReqElems[i])

\* the id a response to x has to carry
IdOf(x) == IF Get(x, "id") \in {Undefined, JNull} THEN JNull ELSE Get(x, "id")

\* the response object answering element i of the body
RespAt(i) ==
  IF res.body.t = "arr"
  THEN IF i \in DOMAIN res.body.a THEN res.body.a[i] ELSE Undefined
  ELSE IF i = 1 THEN res.body ELSE Undefined

\* s begins with prefix
StartsWith(s, prefix) == Len(s) >= Len(prefix) /\ SubSeq(s, 1, Len(prefix)) = prefix

ErrCode(r) == Get(Get(r, "error"), "code")
ErrMessage(r) == Get(Get(r, "error"), "message")

\* r is a JSON-RPC response object: jsonrpc "2.0", an id, one of result, error
IsEnvelope(r) ==
  /\ Get(r, "jsonrpc") = JStr("2.0")
  /\ Has(r, "id")
  /\ Has(r, "result") # Has(r, "error")

\* every tool result of the request can be written by JSON.stringify; a
\* request with a result that cannot be is the top-level crash
Encodable == \A i \in DOMAIN calls : CanStringify(calls[i].out)

\* element i of the body is a tools/call
IsToolsCall(i) == Get(ReqElems[i], "method") = JStr("tools/call")

\* the name element i asks for
NameAt(i) == Get(Get(ReqElems[i], "params"), "name")

\* the names registered, in registration order
RegisteredNames == [j \in DOMAIN (AmelloTools \o custom) |-> (AmelloTools \o custom)[j].name]

IsRegistered(name) == \E j \in DOMAIN RegisteredNames : RegisteredNames[j] = name

(* ------------------------------- claims -------------------------------- *)

\* C1: a tools/call whose registered handler was invoked and threw is
\* answered, alone or as an element of a batch, with HTTP 200 and a JSON-RPC
\* error of code -32603 at its position, never with a 500.
C1_ThrowingHandlerIsRpcError ==
  (Answered /\ Encodable) =>
    \A k \in DOMAIN invoked :
      tools[invoked[k].tool].handler.kind = "throws" =>
        /\ res.status = 200
        /\ ErrCode(RespAt(invoked[k].element)) = JNum(-32603)
        /\ ~Has(RespAt(invoked[k].element), "result")

C1_Witness ==
  /\ Answered /\ Len(requests) = 2 /\ res.status = 200
  /\ \E k \in DOMAIN invoked :
       /\ tools[invoked[k].tool].handler.kind = "throws"
       /\ invoked[k].element = 2
       /\ ErrCode(RespAt(2)) = JNum(-32603)
       /\ Has(RespAt(1), "result")

\* C2: a tools/call naming a tool that is not registered is answered with
\* error -32601 "Tool not found: <name>", the request's id, and no tool
\* handler is invoked for it.
C2_UnknownToolIsNotFound ==
  (Answered /\ ReqParses /\ AllWellFormed /\ Encodable) =>
    \A i \in DOMAIN ReqElems :
      (IsToolsCall(i) /\ NameAt(i).t = "str" /\ ~IsRegistered(NameAt(i))) =>
        /\ ErrCode(RespAt(i)) = JNum(-32601)
        /\ ErrMessage(RespAt(i)) = JStr("Tool not found: " \o NameAt(i).s)
        /\ Get(RespAt(i), "id") = IdOf(ReqElems[i])
        /\ ~Has(RespAt(i), "result")
        /\ \A k \in DOMAIN invoked : invoked[k].element # i

C2_Witness ==
  /\ Answered /\ ReqParses /\ AllWellFormed /\ Len(ReqElems) = 2
  /\ IsToolsCall(1) /\ NameAt(1) = JStr("nope")
  /\ ErrMessage(RespAt(1)) = JStr("Tool not found: nope")
  /\ Len(invoked) = 1

\* C3: a tools/call whose params carry no name is answered with
\* rpcError(id, -32602, "Missing tool name").
C3_MissingNameIsInvalidParams ==
  (Answered /\ ReqParses /\ AllWellFormed /\ Encodable) =>
    \A i \in DOMAIN ReqElems :
      (IsToolsCall(i) /\ NameAt(i) = Undefined) =>
        RespAt(i) = Stringify(rpcError(IdOf(ReqElems[i]), -32602, "Missing tool name", Undefined))

\* C4: when the upstream call of a built-in tool fails (non-2xx, network
\* failure, timeout abort) the tools/call is answered with HTTP 200 and a
\* JSON-RPC result, no error member, whose payload has isError true and one
\* text block describing the failure.
C4_UpstreamFailureIsToolResult ==
  (Answered /\ Encodable) =>
    \A i \in DOMAIN calls :
      UpstreamFailed(calls[i].fetch) =>
        LET r == Get(RespAt(i), "result")
            c == Get(r, "content")
        IN /\ res.status = 200
           /\ ~Has(RespAt(i), "error")
           /\ Get(r, "isError") = JBool(TRUE)
           /\ c.t = "arr" /\ Len(c.a) = 1
           /\ Get(c.a[1], "type") = JStr("text")
           /\ Get(c.a[1], "text").t = "str"
           /\ StartsWith(Get(c.a[1], "text").s, NameAt(i).s \o " failed: ")

C4_Witness ==
  /\ Answered /\ res.status = 200 /\ Len(calls) = 2
  /\ calls[1].fetch.kind = "abort"
  /\ calls[2].fetch.kind = "response" /\ calls[2].fetch.status = 500
  /\ Get(Get(RespAt(1), "result"), "isError") = JBool(TRUE)
  /\ Get(Get(RespAt(2), "result"), "isError") = JBool(TRUE)

\* C5: a tools/list request is answered with a result, never an error, whose
\* tools has one entry per registered tool, in registration order, each with
\* a non-empty name.
C5_ToolsListIsTheRegistry ==
  (Answered /\ ReqParses /\ AllWellFormed /\ Encodable) =>
    \A i \in DOMAIN ReqElems :
      Get(ReqElems[i], "method") = JStr("tools/list") =>
        LET l == Get(Get(RespAt(i), "result"), "tools")
        IN /\ ~Has(RespAt(i), "error")
           /\ l.t = "arr"
           /\ Len(l.a) = Len(RegisteredNames)
           /\ \A j \in DOMAIN l.a :
                /\ Get(l.a[j], "name") = RegisteredNames[j]
                /\ Get(l.a[j], "name").t = "str"
                /\ Get(l.a[j], "name").s # ""

C5_Witness ==
  /\ Answered /\ ReqParses /\ Len(ReqElems) = 1 /\ custom # <<>>
  /\ Get(ReqElems[1], "method") = JStr("tools/list")
  /\ Len(Get(Get(res.body, "result"), "tools").a) = Len(AmelloTools) + Len(custom)

\* C6: every response body the endpoint sends on the JSON-RPC paths (every
\* path but the 204 and the GET readiness answer) is a JSON-RPC response
\* object, or an array of them: jsonrpc "2.0", an id, one of result, error.
C6_EveryResponseIsEnvelope ==
  (Answered /\ req.method \notin {"OPTIONS", "HEAD"} /\ ~(req.method = "GET" /\ ~req.sse)) =>
    IF res.body.t = "arr"
    THEN \A i \in DOMAIN res.body.a : IsEnvelope(res.body.a[i])
    ELSE IsEnvelope(res.body)

\* C7: the response to a request with a string method carries that request's
\* id unchanged, and null when the request has no id or a null one; in a
\* batch the response at each position carries the id of the request there.
C7_IdIsEchoed ==
  (Answered /\ ReqParses /\ AllWellFormed /\ Encodable) =>
    \A i \in DOMAIN ReqElems :
      /\ Has(RespAt(i), "id")
      /\ Get(RespAt(i), "id") = IdOf(ReqElems[i])

C7_Witness ==
  /\ Answered /\ ReqParses /\ AllWellFormed /\ Len(ReqElems) = 2
  /\ res.body.t = "arr"
  /\ Get(ReqElems[1], "id") = JNum(0) /\ Get(res.body.a[1], "id") = JNum(0)
  /\ ~Has(ReqElems[2], "id") /\ Get(res.body.a[2], "id") = JNull

\* C8: a POST whose body is not parseable JSON is answered with HTTP 400 and
\* rpcError(null, -32700, "Parse error", detail), and no tool handler runs.
C8_UnparseableBodyIsParseError ==
  (Answered /\ req.method = "POST" /\ req.body.text.k = "garbage") =>
    /\ res.status = 400
    /\ IsEnvelope(res.body)
    /\ Get(res.body, "id") = JNull
    /\ ErrCode(res.body) = JNum(-32700)
    /\ ErrMessage(res.body) = JStr("Parse error")
    /\ Get(Get(res.body, "error"), "data").t = "str"
    /\ invoked = <<>>
    /\ apiCalls = <<>>

C8_Witness ==
  /\ Answered /\ req.method = "POST" /\ req.body.text.k = "garbage" /\ req.body.bom
  /\ res.status = 400 /\ res.sent = 1

\* C9: a POST whose body is a JSON value of any kind without a string method
\* is answered with HTTP 400 and error -32600 "Invalid Request" carrying the
\* request's id when it has one and null otherwise, never with -32700.
C9_NoMethodIsInvalidRequest ==
  (Answered /\ ReqParses /\ ReqJson.t # "arr" /\ ~HasStringMethod(ReqJson)) =>
    /\ res.status = 400
    /\ ErrCode(res.body) = JNum(-32600)
    /\ ErrMessage(res.body) = JStr("Invalid Request")
    /\ Get(res.body, "id") = IdOf(ReqJson)

\* C10: a batch with invalid elements is answered with an array that has, at
\* the position of each invalid element, its own -32600 error, and at the
\* position of each valid element the answer to it.
C10_BatchAnswersEachElement ==
  (Answered /\ ReqParses /\ ReqJson.t = "arr" /\ ~AllWellFormed) =>
    /\ res.body.t = "arr"
    /\ Len(res.body.a) = Len(ReqElems)
    /\ \A i \in DOMAIN ReqElems :
         IF HasStringMethod(ReqElems[i])
         THEN IsEnvelope(RespAt(i)) /\ ErrCode(RespAt(i)) # JNum(-32600)
         ELSE ErrCode(RespAt(i)) = JNum(-32600)

\* C10 as amended: a batch with an invalid element is answered as a whole
\* with HTTP 400 and one -32600 "Invalid Request" error object, not an array,
\* and no element of it, valid or not, is processed.
C10_InvalidBatchRejectedWhole ==
  (Answered /\ ReqParses /\ ReqJson.t = "arr" /\ ~AllWellFormed) =>
    /\ res.status = 400
    /\ res.body.t = "obj"
    /\ IsEnvelope(res.body)
    /\ ErrCode(res.body) = JNum(-32600)
    /\ ErrMessage(res.body) = JStr("Invalid Request")
    /\ invoked = <<>>
    /\ apiCalls = <<>>

C10_Witness ==
  /\ Answered /\ ReqParses /\ ReqJson.t = "arr" /\ Len(ReqElems) = 2
  /\ IsToolsCall(1) /\ NameAt(1) = JStr("ping")
  /\ ~HasStringMethod(ReqElems[2])
  /\ res.status = 400 /\ res.sent = 1

\* what the handler of the tool that element i calls returned or threw, given
\* the outcome of its fetch
HandlerOutcomeAt(i) ==
  LET k == CalledTool(normalizeReq(ReqElems[i]), tools)
  IN IF k = 0 THEN Returned(Undefined)
     ELSE CASE tools[k].handler.kind = "ping" -> Returned(PingResult)
            [] tools[k].handler.kind = "throws" -> Threw("boom")
            [] OTHER -> ApiToolResult(tools[k], callApi(calls[i].fetch))

\* the body the endpoint sends for element i of the body sent alone
AloneResponse(i) ==
  Stringify(handleRpcSingle(normalizeReq(ReqElems[i]), tools, HandlerOutcomeAt(i)))

\* C11: a batch of N requests with string methods, for any N >= 0 and for
\* N = 1 too, is answered with an array of exactly N elements whose element
\* i is the response request i receives alone; a request that is not an
\* array is never answered with an array.
C11_BatchIsArrayOfN ==
  (Answered /\ Encodable) =>
    IF ReqParses /\ ReqJson.t = "arr"
    THEN AllWellFormed =>
           /\ res.status = 200
           /\ res.body.t = "arr"
           /\ Len(res.body.a) = Len(ReqElems)
           /\ \A i \in DOMAIN ReqElems : res.body.a[i] = AloneResponse(i)
    ELSE res.body.t # "arr"

\* C11 as amended: a batch of N requests with string methods is answered
\* with an array of exactly N elements, element i the response request i
\* receives alone, when N is not 1; a batch of one request is answered with
\* that request's response object itself, not an array; a request that is
\* not an array is never answered with an array.
C11_BatchIsArrayUnlessOne ==
  (Answered /\ Encodable) =>
    IF ReqParses /\ ReqJson.t = "arr"
    THEN AllWellFormed =>
           /\ res.status = 200
           /\ IF Len(ReqElems) = 1
              THEN res.body = AloneResponse(1)
              ELSE /\ res.body.t = "arr"
                   /\ Len(res.body.a) = Len(ReqElems)
                   /\ \A i \in DOMAIN ReqElems : res.body.a[i] = AloneResponse(i)
    ELSE res.body.t # "arr"

C11_Witness ==
  /\ Answered /\ Encodable /\ ReqParses /\ ReqJson.t = "arr" /\ Len(ReqElems) = 1
  /\ IsToolsCall(1) /\ calls[1].fetch.kind = "response"
  /\ res.status = 200 /\ res.body.t = "obj" /\ Has(res.body, "result")

\* C13: an unexpected exception at the top level of the endpoint is answered
\* with HTTP 500 and rpcError(null, -32603, "Internal error", <message>), a
\* JSON-RPC response object.
C13_TopLevelCrashIsInternalError ==
  (Answered /\ ~Encodable) =>
    /\ res.status = 500
    /\ IsEnvelope(res.body)
    /\ Get(res.body, "id") = JNull
    /\ ErrCode(res.body) = JNum(-32603)
    /\ ErrMessage(res.body) = JStr("Internal error")
    /\ Get(Get(res.body, "error"), "data").t = "str"

\* the body of HTTP 405
MethodNotAllowed == Stringify(rpcError(JNull, -32601, "Method not allowed", Undefined))

\* C14: every request whose method is neither POST nor OPTIONS/HEAD, GET and
\* DELETE with any Accept header included, is answered with HTTP 405 and
\* rpcError(null, -32601, "Method not allowed"); OPTIONS and HEAD are
\* answered with 204 and no body.
C14_NonPostIsMethodNotAllowed ==
  Answered =>
    /\ req.method \in {"OPTIONS", "HEAD"} =>
         res.status = 204 /\ res.body = Undefined /\ res.sent = 1
    /\ req.method \notin {"POST", "OPTIONS", "HEAD"} =>
         res.status = 405 /\ res.body = MethodNotAllowed /\ res.sent = 1

\* C14 as amended: a GET whose Accept header does not ask for
\* text/event-stream is answered with HTTP 200 and the readiness object;
\* every other request whose method is neither POST nor OPTIONS/HEAD, a GET
\* asking for text/event-stream included, is answered with HTTP 405 and
\* rpcError(null, -32601, "Method not allowed"); OPTIONS and HEAD are
\* answered with 204 and no body.
C14_NonPostIs405UnlessPlainGet ==
  Answered =>
    /\ req.method \in {"OPTIONS", "HEAD"} =>
         res.status = 204 /\ res.body = Undefined /\ res.sent = 1
    /\ (req.method = "GET" /\ ~req.sse) =>
         res.status = 200 /\ res.body = Stringify(ReadyBody) /\ res.sent = 1
    /\ (req.method \notin {"POST", "OPTIONS", "HEAD"} /\ ~(req.method = "GET" /\ ~req.sse)) =>
         res.status = 405 /\ res.body = MethodNotAllowed /\ res.sent = 1

C14_Witness ==
  /\ Answered /\ req.method = "GET" /\ req.sse
  /\ res.status = 405 /\ ErrCode(res.body) = JNum(-32601)

\* C12: every request to the endpoint, whatever its HTTP method and whatever
\* the source of its body (pre-parsed object, string, byte buffer, stream
\* not yet consumed, stream already consumed), eventually receives exactly
\* one response, with a JSON body unless it is the 204.
C12_EveryRequestIsAnswered ==
  /\ [](res.sent <= 1)
  /\ (pc = "handler") ~>
       (pc = "sent" /\ res.sent = 1 /\ (res.status = 204 \/ res.body # Undefined))

(* -------------------- the claims on the chat endpoint ------------------ *)

\* the chat handler has sent its response
ChatAnswered == cpc = "sent"

\* a request to the Router failed: unreachable, no answer in time, a status
\* that is not 2xx, or a JSON-RPC error
McpFailed(o) ==
  \/ o.kind \in {"network", "timeout"}
  \/ o.kind = "response" /\ (~o.ok \/ Truthy(Get(o.json, "error")))

\* the positions in outbound of the completion requests, of the tools/call
Passes == {i \in DOMAIN outbound : outbound[i].to = "openai"}

ToolCalls ==
  {i \in DOMAIN outbound : outbound[i].to = "mcp" /\ outbound[i].method = "tools/call"}

\* tools/list was requested and failed
ListFailed ==
  /\ outbound # <<>>
  /\ outbound[1].to = "mcp" /\ outbound[1].method = "tools/list"
  /\ McpFailed(outbound[1].outcome)

\* no completion request failed: each returned a message
CompletionsOk == \A i \in Passes : outbound[i].outcome.kind \in {"ok", "pending"}

\* C15: when tools/list fails (Router unreachable, non-2xx, RPC error,
\* timeout) the chat request goes on with an empty tool set and is answered
\* with HTTP 200 and a reply, never with a 500 owed to that failure alone.
C15_ListFailureDegrades ==
  (ChatAnswered /\ ListFailed /\ CompletionsOk) =>
    /\ cres.status = 200
    /\ Has(cres.body, "reply")
    /\ oaTools = JArr(<<>>)
    /\ Passes # {}
    /\ \A i \in Passes : outbound[i].tools = Undefined
    /\ ToolCalls = {}

\* the tool calls of the assistant message pass i returned
TurnAt(i) ==
  IF outbound[i].outcome.kind = "ok" THEN CallsOf(outbound[i].outcome.message) ELSE <<>>

NameOfCall(call) == Get(Get(call, "function"), "name")

ArgumentsOf(call) == Get(Get(call, "function"), "arguments")

\* the arguments of the call are JSON text, or the empty string
ArgsParse(call) == ~Truthy(ArgumentsOf(call)) \/ ~JSONparse(ArgumentsOf(call)).threw

\* the value of the arguments of such a call
ParsedArgs(call) ==
  IF Truthy(ArgumentsOf(call)) THEN JSONparse(ArgumentsOf(call)).value ELSE EmptyObj

\* the turn of pass i is over: a later pass was requested, or the response sent
TurnOver(i) == ChatAnswered \/ \E j \in Passes : j > i

\* the transcript after the turn of pass i: the messages of the pass that
\* follows it, or the transcript the handler holds when none follows
TranscriptAfter(i) ==
  IF \E j \in Passes : j > i
  THEN outbound[CHOOSE j \in Passes : j > i /\ \A l \in Passes : l > i => l >= j].messages
  ELSE messages

\* m is the tool message that answers call
IsToolMessageFor(m, call) ==
  /\ Get(m, "role") = JStr("tool")
  /\ Get(m, "tool_call_id") = Get(call, "id")
  /\ Get(m, "name") = NameOfCall(call)
  /\ Get(m, "content").t = "str"

\* the transcript after the turn of pass i is the transcript of pass i, the
\* assistant message, and one tool message per call, in the order of the calls
ToolMessagesFollow(i) ==
  LET before == outbound[i].messages.a
      after == TranscriptAfter(i).a
      cs == TurnAt(i)
  IN /\ Len(after) >= Len(before) + 1 + Len(cs)
     /\ SubSeq(after, 1, Len(before)) = before
     /\ Get(after[Len(before) + 1], "role") = JStr("assistant")
     /\ \A k \in DOMAIN cs : IsToolMessageFor(after[Len(before) + 1 + k], cs[k])

\* C16: for every tool call the model emits in one turn a tools/call is
\* issued with that call's tool name and parsed arguments, one after the
\* other in the order of the model's tool_calls array, all of them settled
\* before the next completion request and before the reply; the tool
\* messages stand in the transcript in that order, each with the call's id
\* and tool name.
C16_ToolCallsIssuedInOrder ==
  \A i \in Passes :
    LET cs == TurnAt(i)
    IN /\ \A k \in DOMAIN cs :
            (i + k) \in DOMAIN outbound =>
              /\ (i + k) \in ToolCalls
              /\ Get(outbound[i + k].params, "name") = NameOfCall(cs[k])
              /\ ArgsParse(cs[k]) =>
                   Get(outbound[i + k].params, "arguments") = ParsedArgs(cs[k])
              /\ \A l \in 1..(k - 1) : outbound[i + l].outcome # Pending
       /\ (cs # <<>> /\ TurnOver(i)) =>
            /\ \A k \in DOMAIN cs :
                 (i + k) \in DOMAIN outbound /\ outbound[i + k].outcome # Pending
            /\ \A j \in Passes : j > i => j > i + Len(cs)
            /\ ToolMessagesFollow(i)

\* a model turn holds a call whose arguments are a string that is not JSON
BadArgsTurn(i) == \E k \in DOMAIN TurnAt(i) : ~ArgsParse(TurnAt(i)[k])

\* C17: when the arguments string of a tool call is not valid JSON, {} is
\* used as the arguments, the tools/call is still issued, the loop goes on,
\* and the request is not answered with a 500 on that account.
C17_BadArgumentsBecomeEmptyObject ==
  \A i \in Passes :
    (BadArgsTurn(i) /\ TurnOver(i)) =>
      /\ \A k \in DOMAIN TurnAt(i) :
           /\ (i + k) \in ToolCalls
           /\ Get(outbound[i + k].params, "name") = NameOfCall(TurnAt(i)[k])
           /\ ~ArgsParse(TurnAt(i)[k]) =>
                Get(outbound[i + k].params, "arguments") = EmptyObj
      /\ (i + Len(TurnAt(i)) + 1) \in Passes
      /\ (ChatAnswered /\ CompletionsOk) => cres.status = 200

\* the most completion requests the handler makes for one chat request
Ceiling == IF variant = "ts" THEN 2 ELSE MaxIterations

\* pass i is the n-th completion request
PassNumber(i) == Cardinality({j \in Passes : j <= i})

\* the content of a tool message reports a failure: the text chat.ts writes,
\* or the JSON text of the isError result chat.js builds
IsErrorContent(c) ==
  IF "parses" \in DOMAIN c
  THEN /\ Get(c.v, "isError") = JBool(TRUE)
       /\ StartsWith(Get(Get(c.v, "content").a[1], "text").s, "Tool error: ")
  ELSE StartsWith(c.s, "Tool call failed: ")

\* C18: when a tools/call fails, a tool message carrying an error string is
\* still appended for that call's id, the remaining calls of the turn are
\* executed and the next completion pass takes place; the number of tool
\* messages appended equals the number of tool calls of the assistant
\* message.
C18_FailedCallStillAnswered ==
  \A i \in Passes :
    (TurnAt(i) # <<>> /\ TurnOver(i)) =>
      LET cs == TurnAt(i)
          before == Len(outbound[i].messages.a)
          after == TranscriptAfter(i).a
      IN /\ \A k \in DOMAIN cs : (i + k) \in ToolCalls
         /\ ToolMessagesFollow(i)
         /\ Len(after) = before + 1 + Len(cs)
         /\ \A k \in DOMAIN cs :
              McpFailed(outbound[i + k].outcome) =>
                IsErrorContent(Get(after[before + 1 + k], "content"))
         /\ PassNumber(i) < Ceiling => (i + Len(cs) + 1) \in Passes

\* the pass before pass i
PrevPass(i) == CHOOSE j \in Passes : j < i /\ \A l \in Passes : l < i => l <= j

\* the first pass
FirstPass == CHOOSE j \in Passes : \A l \in Passes : j <= l

\* the last pass
LastPass == CHOOSE j \in Passes : \A l \in Passes : l <= j

\* the messages of pass i are those of the pass before it, the assistant
\* message that pass returned with its tool calls, and the tool message of
\* every call, in order, and nothing else
FullTranscript(i) ==
  LET p == PrevPass(i)
      before == outbound[p].messages.a
      ms == outbound[i].messages.a
      cs == TurnAt(p)
  IN /\ Len(ms) = Len(before) + 1 + Len(cs)
     /\ SubSeq(ms, 1, Len(before)) = before
     /\ Get(ms[Len(before) + 1], "role") = JStr("assistant")
     /\ Get(ms[Len(before) + 1], "tool_calls") = JArr(cs)
     /\ \A k \in DOMAIN cs : IsToolMessageFor(ms[Len(before) + 1 + k], cs[k])

\* the messages of the first pass begin with the system prompt
StartsWithSystem(i) == Get(outbound[i].messages.a[1], "role") = JStr("system")

\* the reply of a 200 response is the content of the message m
ReplyIs(m) ==
  /\ cres.status = 200
  /\ Get(cres.body, "reply") =
       (IF variant = "js" /\ ~Truthy(Get(m, "content")) THEN JStr("") ELSE Get(m, "content"))

\* C19: the second completion pass receives the full transcript in order
\* (system prompt, history, user message, the assistant's tool-call message,
\* every tool result) and no tool definitions, and its content is returned
\* as the final reply.
C19_SecondPassWithoutTools ==
  \A i \in Passes :
    PassNumber(i) = 2 =>
      /\ StartsWithSystem(FirstPass)
      /\ FullTranscript(i)
      /\ outbound[i].tools = Undefined
      /\ (ChatAnswered /\ outbound[i].outcome.kind = "ok") =>
           ReplyIs(outbound[i].outcome.message)

\* C19 as amended: every completion pass after the first receives the full
\* transcript in order (the messages of the pass before, the assistant's
\* tool-call message, every tool result). In the two-pass handler it carries
\* no tool definitions; in the looping handler it carries the tool
\* definitions of the first pass. The reply is the content of the last pass
\* whenever that pass returned a message without tool calls.
C19_LaterPassesGetFullTranscript ==
  /\ \A i \in Passes :
       /\ StartsWithSystem(FirstPass)
       /\ PassNumber(i) >= 2 =>
            /\ FullTranscript(i)
            /\ outbound[i].tools =
                 (IF variant = "ts" THEN Undefined ELSE outbound[FirstPass].tools)
            /\ variant = "js" => outbound[i].tools.a # <<>>
  /\ (ChatAnswered /\ Passes # {} /\ outbound[LastPass].outcome.kind = "ok"
        /\ TurnAt(LastPass) = <<>>) =>
       ReplyIs(outbound[LastPass].outcome.message)

C19_Witness ==
  /\ ChatAnswered /\ variant = "ts" /\ Cardinality(Passes) = 2
  /\ Len(TurnAt(FirstPass)) = 2
  /\ outbound[LastPass].tools = Undefined
  /\ Len(outbound[LastPass].messages.a) = 7
  /\ cres.status = 200
  /\ Get(cres.body, "reply") = Get(FinalAnswer, "content")

\* C20: the loop is bounded, at most 2 completion requests in the two-pass
\* handler and at most 4 in the looping one even when the model asks for
\* tools at every turn; after the last of them the request is answered with
\* HTTP 200 and the model's last content as the reply (stated for turns
\* whose tool-call arguments parse and completions that return a message).
C20_BoundedLoopReturnsLastContent ==
  /\ Cardinality(Passes) <= Ceiling
  /\ (/\ ChatAnswered
      /\ Cardinality(Passes) = Ceiling
      /\ CompletionsOk
      /\ \A i \in Passes : ~BadArgsTurn(i)) =>
       ReplyIs(outbound[LastPass].outcome.message)

\* an exception reached the top level of the chat handler: a completion
\* request failed; in chat.ts the completion had no choice to read the
\* message of; in chat.js tools/list failed, the key was missing when the
\* first completion was due, or the arguments of a tool call did not parse
TopLevelException ==
  \/ \E i \in Passes : outbound[i].outcome.kind = "error"
  \/ variant = "ts" /\ \E i \in Passes : outbound[i].outcome.kind = "nochoice"
  \/ variant = "js" /\ ListFailed
  \/ variant = "js" /\ ~apiKey /\ outbound # <<>> /\ outbound[1].outcome.kind = "response"
       /\ ~McpFailed(outbound[1].outcome)
  \/ variant = "js" /\ \E i \in Passes : BadArgsTurn(i)

MessageOf(r) == Get(IF r.raw.k = "json" THEN r.raw.v ELSE Undefined, "message")

\* the message is missing, empty or not a string
BadMessage(r) == MessageOf(r).t # "str" \/ MessageOf(r).s = ""

\* C22: the chat endpoint answers every request that is not a POST with 405
\* and every POST whose message is missing, empty or not a string with 400,
\* and in both cases makes no request to the Router or to the LLM.
C22_ChatRejectsBeforeAnyCall ==
  /\ (cpc # "idle" /\ (creq.method # "POST" \/ BadMessage(creq))) => outbound = <<>>
  /\ (ChatAnswered /\ creq.method # "POST") => cres.status = 405
  /\ (ChatAnswered /\ creq.method = "POST" /\ BadMessage(creq)) => cres.status = 400

\* the tool definitions a completion request advertised
Advertised(i) ==
  IF outbound[i].tools.t = "arr" THEN {outbound[i].tools.a[k] : k \in DOMAIN outbound[i].tools.a}
  ELSE {}

\* the parameters schema of an advertised tool
ParametersOf(t) == Get(Get(t, "function"), "parameters")

\* C23: no tool definition advertised to the LLM has a headers property in
\* its parameters schema, whatever the schema of the tool the Router listed.
C23_NoHeadersAdvertised ==
  \A i \in Passes : \A t \in Advertised(i) :
    ~Has(Get(ParametersOf(t), "properties"), "headers")

(* ---------------------- concurrent invocations ------------------------- *)
(* The platform runs invocations of the exported handler concurrently on   *)
(* one module instance: an invocation runs from one await to the next, and *)
(* at each await another invocation may run. src/api/mcp.js holds two      *)
(* handlers: the one of lines 333-371 serves through a server instance the *)
(* module caches (getServer), the one of lines 770-810 builds its registry *)
(* in every invocation.                                                    *)

\* the requests concurrent invocations receive
ConcurrentRequests ==
  {[method |-> "POST", sse |-> FALSE, stream |-> "flowing", bodyProp |-> "none",
    body |-> [bom |-> FALSE, text |-> [k |-> "json", v |-> v]]] :
     v \in {MkReq(JNum(7), JStr("tools/list"), Undefined),
            Call(JNum(0), ObjOf({<<"name", JStr("ping")>>})),
            Call(JNum(7), ObjOf({<<"name", JStr("currencies_list")>>,
                                 <<"arguments", QueryArgs>>})),
            JNum(5)}}
  \cup {[method |-> "POST", sse |-> FALSE, stream |-> "flowing", bodyProp |-> "none",
         body |-> [bom |-> FALSE, text |-> [k |-> "garbage"]]],
        [method |-> "GET", sse |-> FALSE, stream |-> "flowing", bodyProp |-> "none",
         body |-> NoBody]}

\* how the fetch of a concurrent invocation settles: a response, a network
\* failure, the abort of the timer
ConcurrentOutcomes ==
  {o \in FetchOutcomes :
     o.kind \in {"network", "abort"}
     \/ (o.status = 200 /\ o.json /\ o.text.k \in {"json", "empty"})}

\* an instance: its tools, the slot whose invocation built it, and the
\* slot whose transport it is connected to (0: none)
Instance(ts, owner) == [tools |-> ts, owner |-> owner, transport |-> 0]

\* getServer(): the cached instance when there is one, a new one otherwise
getServer(regs, cached) ==
  IF cached # 0 THEN [id |-> cached, ts |-> regs[cached].tools]
  ELSE [id |-> Len(regs) + 1, ts |-> makeToolRegistry]

\* const registry = makeToolRegistry(): a new instance in every invocation
NewRegistry(regs) == [id |-> Len(regs) + 1, ts |-> makeToolRegistry]

\* the instances after slot s obtained instance r and left its tools as ts
Stored(regs, r, ts, s) ==
  IF r.id > Len(regs) THEN Append(regs, Instance(ts, s))
  ELSE [regs EXCEPT ![r.id].tools = ts]

\* handler (770-810) up to the await of getJsonBody
MethodStep(v) ==
  IF v.req.method \in {"OPTIONS", "HEAD"}
  THEN [v EXCEPT !.pc = "sent", !.res = sendNoContent(v.res)]
  ELSE IF v.req.method = "GET" /\ ~v.req.sse
  THEN [v EXCEPT !.pc = "sent", !.res = trySendJson(v.res, 200, ReadyBody)]
  ELSE IF v.req.method # "POST"
  THEN [v EXCEPT !.pc = "sent",
                 !.res = trySendJson(v.res, 405,
                           rpcError(JNull, -32601, "Method not allowed", Undefined))]
  ELSE [v EXCEPT !.pc = "getJsonBody"]

\* the awaited getJsonBody(req) resolves
BodyStep(v) == [v EXCEPT !.parsed = getJsonBody(v.req), !.pc = "parsed"]

\* if (!obj) return sendJson(res, 400, ...)
ParseErrorStep(v) ==
  [v EXCEPT !.pc = "sent",
            !.res = trySendJson(v.res, 400,
                      rpcError(JNull, -32700, "Parse error",
                               IF Truthy(v.parsed.err) THEN v.parsed.err
                               ELSE JStr("Invalid JSON")))]

\* handler from the registry (instance id, tools ts) to the await of the
\* results: normalisation, 400 on an invalid element, every element started
ValidateDispatchStep(v, id, ts) ==
  LET rs == NormalizeAll(v.parsed.obj)
      started == [i \in DOMAIN rs |-> StartCall(i, rs[i], ts)]
  IN IF \E i \in DOMAIN rs : ~Truthy(rs[i])
     THEN [v EXCEPT !.inst = id, !.pc = "sent",
                    !.res = trySendJson(v.res, 400,
                              rpcError(JNull, -32600, "Invalid Request", Undefined))]
     ELSE [v EXCEPT !.inst = id, !.pc = "await", !.requests = rs,
                    !.calls = [i \in DOMAIN rs |->
                                 [st |-> started[i].st, out |-> started[i].out,
                                  fetch |-> NoFetch]]]

\* the fetch of a built-in tool settles with o: what its element resolves to
SettledCall(reqObj, ts, o) ==
  [st |-> "done", fetch |-> o,
   out |-> handleRpcSingle(reqObj, ts,
             ApiToolResult(ts[CalledTool(reqObj, ts)], callApi(o)))]

\* the await of the results resumes
SendStep(v) ==
  [v EXCEPT !.pc = "sent", !.res = trySendJson(v.res, 200, ResultPayload(v.calls))]

\* handler (333-371) up to the reading of the body: any method but POST is
\* answered with a smoke-test object
SdkMethodStep(v) ==
  IF v.req.method # "POST"
  THEN [v EXCEPT !.pc = "sent",
                 !.res = sendJson(v.res, 200,
                           JObj([ok |-> JBool(TRUE), endpoint |-> JStr("/api/mcp"),
                                 method |-> JStr(v.req.method)]))]
  ELSE [v EXCEPT !.pc = "readBody"]

\* the body is read and parsed; a body that does not parse rejects, and the
\* catch answers 500
SdkBodyStep(v) ==
  IF v.req.body.text.k = "garbage"
  THEN [v EXCEPT !.pc = "sent",
                 !.res = sendJson(v.res, 500, JObj([error |-> JStr("Unexpected token")]))]
  ELSE [v EXCEPT !.pc = "getServer",
                 !.parsed = [obj |-> (IF v.req.body.text.k = "empty" THEN EmptyObj
                                      ELSE v.req.body.text.v),
                             err |-> Undefined]]

InFlight(s) == inflight[s].pc \notin {"idle", "sent", "handled"}

ConcInit ==
  /\ draft \in {"sdk", "rpc"}
  /\ ConcIdle
  /\ custom \in CustomRegistrations
  /\ pc = "idle"
  /\ req = [method |-> "GET", sse |-> FALSE, stream |-> "flowing", bodyProp |-> "none",
            body |-> NoBody]
  /\ parsed = [obj |-> Undefined, err |-> Undefined]
  /\ tools = <<>>
  /\ requests = <<>>
  /\ calls = <<>>
  /\ res = NoResponse
  /\ invoked = <<>>
  /\ apiCalls = <<>>
  /\ variant = "js"
  /\ apiKey = TRUE
  /\ ChatIdle

\* the platform invokes the handler while other invocations are in flight
ConcReceive(s, r) ==
  /\ inflight[s].pc = "idle"
  /\ inflight' = [inflight EXCEPT ![s] = [NoInvocation EXCEPT !.pc = "handler", !.req = r]]
  /\ UNCHANGED <<draft, servers, serverPromise>>
  /\ UNCHANGED <<rpcVars, chatVars, regVars>>

ConcMethod(s) ==
  /\ inflight[s].pc = "handler"
  /\ inflight' = [inflight EXCEPT ![s] = IF draft = "rpc" THEN MethodStep(@)
                                         ELSE SdkMethodStep(@)]
  /\ UNCHANGED <<draft, servers, serverPromise>>
  /\ UNCHANGED <<rpcVars, chatVars, regVars>>

ConcGetJsonBody(s) ==
  /\ draft = "rpc"
  /\ inflight[s].pc = "getJsonBody"
  /\ inflight' = [inflight EXCEPT ![s] = BodyStep(@)]
  /\ UNCHANGED <<draft, servers, serverPromise>>
  /\ UNCHANGED <<rpcVars, chatVars, regVars>>

\* handler (770-810) from the parse check to the await of the results: the
\* registry is made and filled at lines 792-794
ConcServe(s) ==
  /\ draft = "rpc"
  /\ inflight[s].pc = "parsed"
  /\ IF ~Truthy(inflight[s].parsed.obj)
     THEN /\ inflight' = [inflight EXCEPT ![s] = ParseErrorStep(@)]
          /\ UNCHANGED servers
     ELSE LET r == NewRegistry(servers)
              ts == registerAmelloTools(r.ts, custom)
          IN /\ servers' = Stored(servers, r, ts, s)
             /\ inflight' = [inflight EXCEPT ![s] = ValidateDispatchStep(@, r.id, ts)]
  /\ UNCHANGED <<draft, serverPromise>>
  /\ UNCHANGED <<rpcVars, chatVars, regVars>>

ConcFetchSettles(s, i, o) ==
  /\ draft = "rpc"
  /\ inflight[s].pc = "await"
  /\ i \in DOMAIN inflight[s].calls
  /\ inflight[s].calls[i].st = "waiting"
  /\ inflight' = [inflight EXCEPT ![s].calls[i] =
                    SettledCall(inflight[s].requests[i],
                                servers[inflight[s].inst].tools, o)]
  /\ UNCHANGED <<draft, servers, serverPromise>>
  /\ UNCHANGED <<rpcVars, chatVars, regVars>>

ConcSendResults(s) ==
  /\ draft = "rpc"
  /\ inflight[s].pc = "await"
  /\ \A i \in DOMAIN inflight[s].calls : inflight[s].calls[i].st = "done"
  /\ inflight' = [inflight EXCEPT ![s] = SendStep(@)]
  /\ UNCHANGED <<draft, servers, serverPromise>>
  /\ UNCHANGED <<rpcVars, chatVars, regVars>>

SdkReadBody(s) ==
  /\ draft = "sdk"
  /\ inflight[s].pc = "readBody"
  /\ inflight' = [inflight EXCEPT ![s] = SdkBodyStep(@)]
  /\ UNCHANGED <<draft, servers, serverPromise>>
  /\ UNCHANGED <<rpcVars, chatVars, regVars>>

\* const server = await getServer(): the first invocation to arrive builds
\* the server and the module keeps it in serverPromise
SdkGetServer(s) ==
  /\ draft = "sdk"
  /\ inflight[s].pc = "getServer"
  /\ LET r == getServer(servers, serverPromise)
     IN /\ servers' = Stored(servers, r, r.ts, s)
        /\ serverPromise' = r.id
        /\ inflight' = [inflight EXCEPT ![s].inst = r.id, ![s].pc = "connect"]
  /\ UNCHANGED draft
  /\ UNCHANGED <<rpcVars, chatVars, regVars>>

\* await server.connect(transport): the instance is bound to the transport
\* of this invocation
SdkConnect(s) ==
  /\ draft = "sdk"
  /\ inflight[s].pc = "connect"
  /\ servers' = [servers EXCEPT ![inflight[s].inst].transport = s]
  /\ inflight' = [inflight EXCEPT ![s].pc = "handleRequest"]
  /\ UNCHANGED <<draft, serverPromise>>
  /\ UNCHANGED <<rpcVars, chatVars, regVars>>

\* await transport.handleRequest(req, res, body) returns: the request went
\* through the instance, which wrote what the response is
SdkHandleRequest(s) ==
  /\ draft = "sdk"
  /\ inflight[s].pc = "handleRequest"
  /\ inflight' = [inflight EXCEPT ![s].pc = "handled"]
  /\ UNCHANGED <<draft, servers, serverPromise>>
  /\ UNCHANGED <<rpcVars, chatVars, regVars>>

ConcNext ==
  \/ \E s \in Slots, r \in ConcurrentRequests : ConcReceive(s, r)
  \/ \E s \in Slots : ConcMethod(s)
  \/ \E s \in Slots : ConcGetJsonBody(s)
  \/ \E s \in Slots : ConcServe(s)
  \/ \E s \in Slots, i \in 1..(MaxBatch + 1), o \in ConcurrentOutcomes : ConcFetchSettles(s, i, o)
  \/ \E s \in Slots : ConcSendResults(s)
  \/ \E s \in Slots : SdkReadBody(s)
  \/ \E s \in Slots : SdkGetServer(s)
  \/ \E s \in Slots : SdkConnect(s)
  \/ \E s \in Slots : SdkHandleRequest(s)

SpecConcurrent == ConcInit /\ [][ConcNext]_vars

\* the response the handler of lines 770-810 sends to request r when it is
\* the only one, its fetches settling as in calls
RunAlone(r, cs) ==
  LET ts == registerAmelloTools(makeToolRegistry, custom)
      a == MethodStep([NoInvocation EXCEPT !.req = r])
      b == BodyStep(a)
      c == ValidateDispatchStep(b, 0, ts)
      d == [c EXCEPT !.calls = [i \in DOMAIN c.calls |->
                                  IF c.calls[i].st = "waiting"
                                  THEN SettledCall(c.requests[i], ts, cs[i].fetch)
                                  ELSE c.calls[i]]]
  IN IF a.pc = "sent" THEN a.res
     ELSE IF ~Truthy(b.parsed.obj) THEN ParseErrorStep(b).res
     ELSE IF c.pc = "sent" THEN c.res
     ELSE SendStep(d).res

FairSpecChat ==
  /\ SpecChat
  /\ WF_vars(TsValidate)
  /\ WF_vars(\E o \in ListOutcomes : TsListTools(o))
  /\ WF_vars(\E o \in Completions(ToolsGiven) : TsComplete(o))
  /\ WF_vars(\E o \in CallOutcomes : TsToolCall(o))
  /\ WF_vars(JsMethod)
  /\ WF_vars(JsReadJson)

\* C25: every outbound call of the chat endpoint (tools/list and tools/call
\* to the Router, the completion request) is armed with a timeout that
\* aborts it, so that a request whose upstream never answers still ends
\* with a response.
C25_SilentUpstreamStillAnswered == (cpc = "handler") ~> (cpc = "sent")

(* ------------------------ the registry on its own ---------------------- *)

\* what register is called with: tools that pass its guard, among them two
\* of the same name, a tool whose name is the empty string, tools whose name
\* is not a string or is missing, and a tool whose handler is not a function
RegisterInputs ==
  { ToolDef("ping", "Health check", [kind |-> "ping"]),
    ToolDef("ping", "Health check, again", [kind |-> "throws"]),
    ToolDef("", "no name", [kind |-> "ping"]),
    [ToolDef("five", "numeric name", [kind |-> "ping"]) EXCEPT !.name = JNum(5)],
    [ToolDef("none", "no name property", [kind |-> "ping"]) EXCEPT !.name = Undefined],
    ToolDef("broken", "handler is not a function", [kind |-> "notcallable"]) }

\* register(opts, handler) is called on the registry
Register(opts) ==
  /\ Len(registry) < MaxTools
  /\ registry' = register(registry, opts)
  /\ lastRegister' = [called |-> TRUE, opts |-> opts, threw |-> ~registerOk(opts),
                      before |-> registry]
  /\ UNCHANGED <<rpcVars, chatVars, concVars>>

RegistryNext == \E opts \in RegisterInputs : Register(opts)

SpecRegistry == Init /\ [][RegistryNext]_vars

\* C26: register(definition) throws and leaves the registry as it was
\* whenever the name is not a non-empty string (the empty string included)
\* or the handler is not callable; otherwise it appends exactly one tool,
\* the definition, and does not throw.
C26_RegisterRejectsBadDefinitions ==
  lastRegister.called =>
    IF /\ lastRegister.opts.name.t = "str"
       /\ lastRegister.opts.name.s # ""
       /\ lastRegister.opts.handler.kind # "notcallable"
    THEN ~lastRegister.threw /\ registry = Append(lastRegister.before, lastRegister.opts)
    ELSE lastRegister.threw /\ registry = lastRegister.before

\* the positions in the registry of the tools registered under a name
Registrations(name) == {j \in DOMAIN tools : tools[j].name = name}

\* C27: when two tools are registered under the same name, the last
\* registration wins: tools/call invokes the handler registered last.
C27_LastRegistrationWins ==
  \A e \in DOMAIN invoked :
    \A j \in Registrations(invoked[e].name) : j <= invoked[e].tool

\* C27 as amended: when two tools are registered under the same name, the
\* first registration wins: tools/call invokes the handler registered
\* first, whatever was registered under that name afterwards.
C27_FirstRegistrationWins ==
  \A e \in DOMAIN invoked :
    /\ invoked[e].tool \in Registrations(invoked[e].name)
    /\ \A j \in Registrations(invoked[e].name) : invoked[e].tool <= j

C27_Witness ==
  /\ Answered
  /\ \E e \in DOMAIN invoked :
       /\ Cardinality(Registrations(invoked[e].name)) = 2
       /\ invoked[e].name = JStr("ping")
       /\ tools[invoked[e].tool].handler.kind = "ping"
       /\ RespAt(invoked[e].element) = Stringify(rpcResult(Get(requests[invoked[e].element], "id"), PingResult))

\* the params of the request element that invocation e served
ParamsOf(e) == Get(requests[invoked[e].element], "params")

\* C28: the arguments tools/call passes to the handler are params.arguments
\* when present, else params.args when present, else the properties of
\* params other than name, else {}; arguments that are present are never
\* replaced by a source of lower precedence.
C28_ArgumentsByPrecedence ==
  \A e \in DOMAIN invoked : invoked[e].args = CallArgsWithRest(ParamsOf(e))

\* C28 as amended: the arguments tools/call passes to the handler are
\* params.arguments unless that is undefined or null, and params.args then;
\* when the value so chosen is falsy (neither is given, or params is absent)
\* the handler receives {}. Properties of params other than arguments and
\* args are never passed, and args never replaces arguments that are given.
C28_ArgumentsElseArgsElseEmpty ==
  \A e \in DOMAIN invoked :
    LET a == Get(ParamsOf(e), "arguments")
        chosen == IF a \notin {Undefined, JNull} THEN a ELSE Get(ParamsOf(e), "args")
    IN /\ invoked[e].args = (IF Truthy(chosen) THEN chosen ELSE EmptyObj)
       /\ Truthy(invoked[e].args)

C28_Witness ==
  /\ Answered
  /\ \E e \in DOMAIN invoked :
       /\ Has(ParamsOf(e), "query") /\ ~Has(ParamsOf(e), "arguments")
       /\ invoked[e].args = EmptyObj
  /\ \E e \in DOMAIN invoked :
       /\ Has(ParamsOf(e), "arguments") /\ Has(ParamsOf(e), "args")
       /\ invoked[e].args = QueryArgs

\* C29: a POST that is rejected at the envelope stage (a body that is
\* missing or does not parse, an invalid request, a batch with an invalid
\* element) invokes no tool handler and makes no call to the booking API:
\* the whole request is validated before the first tool is invoked.
C29_RejectedPostInvokesNothing ==
  /\ (Answered /\ req.method = "POST" /\ res.status = 400) =>
       (invoked = <<>> /\ apiCalls = <<>>)
  /\ (pc # "idle" /\ req.method = "POST" /\ (~ReqParses \/ ~AllWellFormed)) =>
       (invoked = <<>> /\ apiCalls = <<>>)
  /\ (invoked # <<>> \/ apiCalls # <<>>) =>
       (pc \in {"await", "sent"} /\ \A i \in DOMAIN requests : Truthy(requests[i]))

C29_Witness ==
  /\ Answered /\ res.status = 400 /\ ReqParses /\ ReqJson.t = "arr" /\ Len(ReqElems) = 2
  /\ IsToolsCall(1) /\ IsRegistered(NameAt(1))
  /\ ~HasStringMethod(ReqElems[2])
  /\ ErrCode(res.body) = JNum(-32600)
  /\ invoked = <<>> /\ apiCalls = <<>>

RoleOf(m) == Get(m, "role")

\* m is an assistant message that carries tool calls
CallsTools(m) == RoleOf(m) = JStr("assistant") /\ CallsOf(m) # <<>>

\* the transcript ms starts with the system message, every assistant message
\* with tool calls is followed at once by the tool message of each of its
\* calls, in the order of the calls, and by no further tool message, and
\* every tool message answers a call of the assistant message before it
WellFormedTranscript(ms) ==
  /\ ms # <<>>
  /\ RoleOf(ms[1]) = JStr("system")
  /\ \A k \in DOMAIN ms :
       CallsTools(ms[k]) =>
         LET cs == CallsOf(ms[k])
         IN /\ k + Len(cs) <= Len(ms)
            /\ \A j \in DOMAIN cs : IsToolMessageFor(ms[k + j], cs[j])
            /\ (k + Len(cs) + 1) \in DOMAIN ms => RoleOf(ms[k + Len(cs) + 1]) # JStr("tool")
  /\ \A k \in DOMAIN ms :
       RoleOf(ms[k]) = JStr("tool") =>
         \E a \in 1..(k - 1) : CallsTools(ms[a]) /\ (k - a) \in DOMAIN CallsOf(ms[a])

\* the request was answered with the final answer of pass i: the content of
\* its message, and the transcript with that message at its end
FinalAnswerAt(i) ==
  /\ ReplyIs(outbound[i].outcome.message)
  /\ Get(cres.body, "messages").t = "arr"
  /\ LET ms == Get(cres.body, "messages").a
     IN /\ Len(ms) = Len(outbound[i].messages.a) + 1
        /\ SubSeq(ms, 1, Len(ms) - 1) = outbound[i].messages.a
        /\ RoleOf(ms[Len(ms)]) = JStr("assistant")
        /\ CallsOf(ms[Len(ms)]) = <<>>

====
